---- MODULE Spec2Model ----
(***************************************************************************)
(* Model of the Stage edge layer of aiauthz/auth-illustration              *)
(* (src/src/stage/EdgeLayer.tsx): the node registry refreshed from the     *)
(* node element handles, the route recomputation (calculatePaths), the     *)
(* dash-phase animation loop, the timers of the three effects and the      *)
(* rendered SVG output.                                                    *)
(*                                                                         *)
(* Lengths: the code divides widths, heights and sums of two coordinates   *)
(* by 2, at most twice in a row.  Element geometry is in whole pixels;     *)
(* every point of a route is kept in units of 1/Scale pixel, so that the   *)
(* arithmetic of the code is exact on integers.                            *)
(*                                                                         *)
(* A render of the component and the effects React runs for it are one     *)
(* step: a change of the `edges` prop re-renders, runs the cleanups of the *)
(* effects that depend on [edges] and runs those effects again.            *)
(***************************************************************************)
EXTENDS Integers, Sequences, FiniteSets, TLC

\* ------------------------------------------------------------------------
\* Bounds of the model
\* ------------------------------------------------------------------------

\* SpecGeom: element left is ColStep * (0..MaxCol), top is RowStep * (0..MaxRow)
MaxCol == 3
MaxRow == 2
\* Spec: number of alternative positions an element can be moved to
MaxShift == 1
MaxStyle == 1
\* SpecLabels: labels have 0..MaxLabelLen characters; the chip's cap is reached at 16
MaxLabelLen == 17

\* ------------------------------------------------------------------------
\* Program constants
\* ------------------------------------------------------------------------

Scale == 4
padding == 30
labelLift == 8
defaultWidth == 220
defaultHeight == 120
dashStep == 2
dashPeriod == 20
chipHeight == 18
chipRise == 10
chipMaxWidth == 160
chipMaxHalf == 80
charWidth == 10
charHalf == 5

Nodes == {"a", "b", "c"}
EdgeIds == {"e1", "e2"}
NoEl == [mounted |-> FALSE]

\* the one-shot recomputation timers, by delay in ms
TimerDelays == {100, 300, 500, 1000}

Abs(n) == IF n < 0 THEN -n ELSE n
SetMin(S) == CHOOSE m \in S : \A k \in S : m <= k
SetMax(S) == CHOOSE m \in S : \A k \in S : m >= k

VARIABLES
    refs,           \* nodeRefs: node id -> element handle (NoEl: ref.current is null)
    nodesData,      \* nodesDataRef.current: node id -> measured box
    edges,          \* the edges prop of the last render: edge id -> declaration
    paths,          \* paths state: edge id -> [path, labelPos]
    dashOffset,     \* dashOffset state
    mounted,        \* the component is mounted
    rafPending,     \* an animation frame requested by animate is pending
    timers,         \* delays of the one-shot timers still pending
    calcInterval,   \* the 1000 ms recomputation interval is active
    regInterval,    \* the 200 ms registry interval is active
    resizeListener, \* calculatePaths is registered for window resize
    dom,            \* the SVG of the last render: [markers, drawn]
    calcIn,         \* inputs read by the last recomputation (history)
    calcEdges,      \* the edges prop captured by the pending calculatePaths closure
    currentSlide,   \* PresentationPage: number of the slide shown, from 1
    slide,          \* state of the mounted slide component: flowStep, flags, tokens
    validationTimer, \* the 1500 ms timer of the slide's validation effect is pending
    advanceTimer,   \* step the pending 1000 ms timer will set, or "none"
    lastEvent,      \* the last input or timer the page handled (history)
    slug,           \* useParams().slug: the slug of the URL as last rendered
    pendingNav,     \* slug of the navigate(..., replace) not yet rendered, or "none"
    pendingSet      \* argument of the setCurrentSlide of effect 2 not yet rendered, or 0

layerVars == <<refs, nodesData, edges, paths, dashOffset, mounted, rafPending,
               timers, calcInterval, regInterval, resizeListener, dom, calcIn, calcEdges>>

urlVars == <<slug, pendingNav, pendingSet>>

slideVars == <<currentSlide, slide, validationTimer, advanceTimer, lastEvent,
               slug, pendingNav, pendingSet>>

vars == <<refs, nodesData, edges, paths, dashOffset, mounted, rafPending,
          timers, calcInterval, regInterval, resizeListener, dom, calcIn, calcEdges,
          currentSlide, slide, validationTimer, advanceTimer, lastEvent,
          slug, pendingNav, pendingSet>>

\* ------------------------------------------------------------------------
\* Node registry: updateNodePositions (EdgeLayer.tsx 61-82)
\* ------------------------------------------------------------------------

\* An inline style value: "px" is "<n>px" (n may be negative), "none" is a
\* missing value, "auto" a value without any digit.
Px(n) == [k |-> "px", n |-> n]
NoStyle == [k |-> "none", n |-> 0]
AutoStyle == [k |-> "auto", n |-> 0]

El(l, t, ow, oh) == [mounted |-> TRUE, left |-> l, top |-> t, ow |-> ow, oh |-> oh]

\* parseFloat(str.replace('px', '').replace(/[^\d.]/g, '')) || 0
\* a parse without the "|| 0" default: NaN fails every comparison of the
\* x >= 0 && y >= 0 test, as -1 does
parseCoord_noDefault(s) == IF s.k = "px" THEN Abs(s.n) ELSE -1

\* every character that is no digit and no dot is removed, the sign included
parseCoord(s) == IF s.k = "px" THEN Abs(s.n) ELSE 0

measure(el) ==
    [x |-> parseCoord(el.left),
     y |-> parseCoord(el.top),
     w |-> IF el.ow = 0 THEN defaultWidth ELSE el.ow,
     h |-> IF el.oh = 0 THEN defaultHeight ELSE el.oh]

updateNodePositions(r) ==
    LET kept == {n \in Nodes : r[n].mounted
                               /\ measure(r[n]).x >= 0 /\ measure(r[n]).y >= 0}
    IN  [n \in kept |-> measure(r[n])]

\* ------------------------------------------------------------------------
\* Route planner: calculatePaths (EdgeLayer.tsx 92-213)
\* ------------------------------------------------------------------------

Pt(x, y) == [x |-> x, y |-> y]

\* centre of a box, in 1/Scale px
center(b) == Pt(Scale * b.x + (Scale \div 2) * b.w, Scale * b.y + (Scale \div 2) * b.h)

halfW(b) == (Scale \div 2) * b.w
halfH(b) == (Scale \div 2) * b.h

edgeDx(f, t) == center(t).x - center(f).x
edgeDy(f, t) == center(t).y - center(f).y

\* a dominance test that counts a tie as horizontal
horizontalDominant_orEqual(f, t) == Abs(edgeDx(f, t)) >= Abs(edgeDy(f, t))

horizontalDominant(f, t) == Abs(edgeDx(f, t)) > Abs(edgeDy(f, t))

startAnchor(f, t) ==
    IF horizontalDominant(f, t)
    THEN Pt(center(f).x + (IF edgeDx(f, t) > 0 THEN halfW(f) ELSE -halfW(f)), center(f).y)
    ELSE Pt(center(f).x, center(f).y + (IF edgeDy(f, t) > 0 THEN halfH(f) ELSE -halfH(f)))

\* an end anchor on the side of the target that faces away from the source
endAnchor_farSide(f, t) ==
    IF horizontalDominant(f, t)
    THEN Pt(center(t).x + (IF edgeDx(f, t) > 0 THEN halfW(t) ELSE -halfW(t)), center(t).y)
    ELSE Pt(center(t).x, center(t).y + (IF edgeDy(f, t) > 0 THEN halfH(t) ELSE -halfH(t)))

endAnchor(f, t) ==
    IF horizontalDominant(f, t)
    THEN Pt(center(t).x + (IF edgeDx(f, t) > 0 THEN -halfW(t) ELSE halfW(t)), center(t).y)
    ELSE Pt(center(t).x, center(t).y + (IF edgeDy(f, t) > 0 THEN -halfH(t) ELSE halfH(t)))

\* an obstruction test that includes the ends of the x-range
intermediateNodes_inclusive(e, reg) ==
    LET f == reg[e.from]
        t == reg[e.to]
        minX == IF center(f).x < center(t).x THEN center(f).x ELSE center(t).x
        maxX == IF center(f).x > center(t).x THEN center(f).x ELSE center(t).x
    IN  IF horizontalDominant(f, t)
        THEN {n \in DOMAIN reg : /\ n # e.from /\ n # e.to
                                 /\ center(reg[n]).x >= minX
                                 /\ center(reg[n]).x <= maxX}
        ELSE {}

\* ids of the registered nodes pushed to intermediateNodes for the edge e
intermediateNodes(e, reg) ==
    LET f == reg[e.from]
        t == reg[e.to]
        minX == IF center(f).x < center(t).x THEN center(f).x ELSE center(t).x
        maxX == IF center(f).x > center(t).x THEN center(f).x ELSE center(t).x
    IN  IF horizontalDominant(f, t)
        THEN {n \in DOMAIN reg : /\ n # e.from /\ n # e.to
                                 /\ center(reg[n]).x > minX
                                 /\ center(reg[n]).x < maxX}
        ELSE {}

\* a bypass line that is put above the boxes whatever the direction
bypassY_alwaysAbove(e, reg) ==
    LET f == reg[e.from]
        t == reg[e.to]
        mid == intermediateNodes(e, reg)
    IN  Scale * (SetMin({f.y, t.y} \cup {reg[n].y : n \in mid}) - padding)

\* the y of the bypass line, in 1/Scale px
bypassY(e, reg) ==
    LET f == reg[e.from]
        t == reg[e.to]
        mid == intermediateNodes(e, reg)
    IN  IF edgeDx(f, t) > 0
        THEN Scale * (SetMin({f.y, t.y} \cup {reg[n].y : n \in mid}) - padding)
        ELSE Scale * (SetMax({f.y + f.h, t.y + t.h} \cup {reg[n].y + reg[n].h : n \in mid})
                      + padding)

\* a direct path whose elbow is the single point (midX, midY)
directPath_throughMid(f, t) ==
    LET s == startAnchor(f, t)
        d == endAnchor(f, t)
        midX == (s.x + d.x) \div 2
        midY == (s.y + d.y) \div 2
    IN  << s, Pt(midX, midY), Pt(midX, midY), d >>

\* "M sx sy L .. L .. L dx dy" of an edge without intermediate nodes, as its
\* point list: H-V through the middle x, or V-H through the middle y
directPath(f, t) ==
    LET s == startAnchor(f, t)
        d == endAnchor(f, t)
        midX == (s.x + d.x) \div 2
        midY == (s.y + d.y) \div 2
    IN  IF horizontalDominant(f, t)
        THEN << s, Pt(midX, s.y), Pt(midX, d.y), d >>
        ELSE << s, Pt(s.x, midY), Pt(d.x, midY), d >>

\* a bypass that enters the target at its side anchor
bypassPath_sideEntry(e, reg) ==
    LET f == reg[e.from]
        t == reg[e.to]
        by == bypassY(e, reg)
    IN  << Pt(center(f).x, Scale * (IF edgeDx(f, t) > 0 THEN f.y ELSE f.y + f.h)),
           Pt(center(f).x, by), Pt(center(t).x, by), endAnchor(f, t) >>

\* the path around the intermediate nodes: above them for dx > 0, below otherwise
bypassPath(e, reg) ==
    LET f == reg[e.from]
        t == reg[e.to]
        by == bypassY(e, reg)
    IN  IF edgeDx(f, t) > 0
        THEN << Pt(center(f).x, Scale * f.y), Pt(center(f).x, by),
                Pt(center(t).x, by), Pt(center(t).x, Scale * t.y) >>
        ELSE << Pt(center(f).x, Scale * (f.y + f.h)), Pt(center(f).x, by),
                Pt(center(t).x, by), Pt(center(t).x, Scale * (t.y + t.h)) >>

\* the route of one edge whose endpoints are both in the registry
route(e, reg) ==
    LET f == reg[e.from]
        t == reg[e.to]
        midX == (startAnchor(f, t).x + endAnchor(f, t).x) \div 2
        midY == (startAnchor(f, t).y + endAnchor(f, t).y) \div 2
    IN  IF intermediateNodes(e, reg) # {}
        THEN [path |-> bypassPath(e, reg),
              labelPos |-> Pt(midX, bypassY(e, reg) - Scale * labelLift)]
        ELSE [path |-> directPath(f, t),
              labelPos |-> Pt(midX, midY - Scale * labelLift)]

isVisible(e) == e.visible # "false"

\* a pass that stops at the first visible edge with a missing endpoint
routedIds_abortOnMissing(edgs, reg) ==
    IF \E id \in DOMAIN edgs : /\ isVisible(edgs[id])
                               /\ ~(edgs[id].from \in DOMAIN reg /\ edgs[id].to \in DOMAIN reg)
    THEN {}
    ELSE {id \in DOMAIN edgs : isVisible(edgs[id])}

\* the edges for which a pass of calculatePaths stores a route
routedIds(edgs, reg) ==
    {id \in DOMAIN edgs : /\ isVisible(edgs[id])
                          /\ edgs[id].from \in DOMAIN reg
                          /\ edgs[id].to \in DOMAIN reg}

newPaths(edgs, reg) == [id \in routedIds(edgs, reg) |-> route(edgs[id], reg)]

\* ------------------------------------------------------------------------
\* Render (EdgeLayer.tsx 235-317)
\* ------------------------------------------------------------------------

visibleEdges(edgs) == {id \in DOMAIN edgs : isVisible(edgs[id])}

\* render without the visible filter: every declared edge is mapped
render_unfiltered(edgs, pths, off) ==
    [markers |-> DOMAIN edgs,
     drawn |-> [id \in DOMAIN edgs \cap DOMAIN pths |->
                  [d |-> pths[id].path,
                   labelPos |-> pths[id].labelPos,
                   strokeDashoffset |-> IF edgs[id].pulse THEN off ELSE 0]]]

\* edge.label.length; a declaration without a label has none to measure
labelLength(e) == IF "label" \in DOMAIN e THEN e.label ELSE 0

Min(a, b) == IF a < b THEN a ELSE b

\* the label chip without the cap on its offset from the anchor
labelChip_uncappedOffset(e, labelPos) ==
    IF labelLength(e) > 0
    THEN <<[x |-> labelPos.x - Scale * (labelLength(e) * charHalf),
            y |-> labelPos.y - Scale * chipRise,
            width |-> Scale * Min(chipMaxWidth, labelLength(e) * charWidth),
            height |-> Scale * chipHeight]>>
    ELSE <<>>

\* the <rect> behind the label text: rendered when edge.label is truthy
labelChip(e, labelPos) ==
    IF labelLength(e) > 0
    THEN <<[x |-> labelPos.x - Scale * Min(chipMaxHalf, labelLength(e) * charHalf),
            y |-> labelPos.y - Scale * chipRise,
            width |-> Scale * Min(chipMaxWidth, labelLength(e) * charWidth),
            height |-> Scale * chipHeight]>>
    ELSE <<>>

render(edgs, pths, off) ==
    [markers |-> visibleEdges(edgs),
     drawn |-> [id \in visibleEdges(edgs) \cap DOMAIN pths |->
                  [d |-> pths[id].path,
                   labelPos |-> pths[id].labelPos,
                   strokeDashoffset |-> IF edgs[id].pulse THEN off ELSE 0,
                   chip |-> labelChip(edgs[id], pths[id].labelPos)]]]

EmptyFn == [id \in {} |-> 0]

EmptyDom == [markers |-> {}, drawn |-> EmptyFn]

\* the loop condition without the visibility test
hasPulsing_anyPulse(edgs) == \E id \in DOMAIN edgs : edgs[id].pulse

hasPulsing(edgs) == \E id \in DOMAIN edgs : edgs[id].pulse /\ isVisible(edgs[id])

\* ------------------------------------------------------------------------
\* Inputs
\* ------------------------------------------------------------------------

Edge(f, t, v, p) == [from |-> f, to |-> t, visible |-> v, pulse |-> p]

\* Spec: e1 runs from a to c and changes its flags from step to step (visible
\* is "unset", "true" or "false"); e2 runs from b to a and is always shown.
E1Decls == {Edge("a", "c", v, p) : v \in {"unset", "false"}, p \in BOOLEAN}
E2Decls == {Edge("b", "a", "true", FALSE)}

EdgeConfigs ==
    {[id \in EdgeIds |-> IF id = "e1" THEN d1 ELSE d2] : d1 \in E1Decls, d2 \in E2Decls}

\* Spec: a row of three cards; b and c can be unmounted, c can be moved left
ElA == El(Px(100), Px(280), 220, 120)
ElB == El(Px(350), Px(280), 220, 120)
ElC(k) == El(Px(600 - 300 * k), Px(280), 220, 120)

ElementStates(n) ==
    IF n = "a" THEN {ElA}
    ELSE IF n = "b" THEN {NoEl, ElB}
    ELSE {NoEl} \cup {ElC(k) : k \in 0..MaxShift}

\* SpecGeom: a stays in the top row with an unmeasured height and takes every
\* width, b and c take every grid position and every size (0 is an unmeasured
\* size)
GeomLefts == {120 * i : i \in 0..MaxCol}
GeomTops == {120 * j : j \in 0..MaxRow}
GeomWidths == {0, 100}
GeomHeights == {0, 61}

GeomElements(n) ==
    IF n = "a"
    THEN {El(Px(120), Px(0), w, 0) : w \in GeomWidths}
    ELSE {El(Px(l), Px(t), w, h) : l \in GeomLefts, t \in GeomTops,
                                   w \in GeomWidths, h \in GeomHeights}

\* a declaration with a label of len characters
Labelled(e, len) == [from |-> e.from, to |-> e.to, visible |-> e.visible,
                     pulse |-> e.pulse, label |-> len]

\* SpecLabels: both edges shown, each with a label of every length from the
\* empty one to one past the cap of the chip
LabelLengths == 0..MaxLabelLen

LabelEdges(l1, l2) ==
    [id \in EdgeIds |-> IF id = "e1" THEN Labelled(Edge("a", "c", "unset", FALSE), l1)
                        ELSE Labelled(Edge("b", "a", "true", FALSE), l2)]

GeomEdges == [id \in EdgeIds |-> IF id = "e1" THEN Edge("a", "c", "unset", FALSE)
                                 ELSE Edge("b", "a", "true", FALSE)]

\* inline positions a card can be given: px values on both sides of 0, no
\* inline style, a value without digits
StyleValues == {Px(40 * i) : i \in -MaxStyle..MaxStyle} \cup {NoStyle, AutoStyle}

\* the elements of the registry specification: b is restyled, a and c stay
StyledElements(n) ==
    IF n = "b"
    THEN {NoEl} \cup {El(l, t, 220, 120) : l \in StyleValues, t \in StyleValues}
    ELSE IF n = "a" THEN {ElA} ELSE {ElC(0)}

NoCalc == [done |-> FALSE, edges |-> EmptyFn, reg |-> EmptyFn]

\* ------------------------------------------------------------------------
\* Slide components: state and handlers
\* ------------------------------------------------------------------------

\* state of a slide component after mount: every useState initial value;
\* a token field is TRUE when the token is not null
InitialSlide ==
    [flowStep |-> "idle", isValidated |-> FALSE, showLoginDialog |-> FALSE,
     showConsentDialog |-> FALSE, showTerminal |-> FALSE, idToken |-> FALSE,
     idJag |-> FALSE, accessToken |-> FALSE, zoomAccessToken |-> FALSE,
     meetingResponse |-> FALSE, username |-> FALSE,
     selectedEntryId |-> "none", insightsOpen |-> FALSE]

\* SLIDES: the slugs of the ready slides, in order
SLIDES == <<"pkce", "oauth-consent", "app-to-app", "delegated-api-key",
            "agent-as-oauth-client", "cross-app-access">>

\* a slug that no slide has
NoSuchSlug == "no-such-flow"

\* readySlides.findIndex((s) => s.slug === sl)
findIndex(sl) ==
    IF \E i \in 1..Len(SLIDES) : SLIDES[i] = sl
    THEN (CHOOSE i \in 1..Len(SLIDES) : SLIDES[i] = sl) - 1
    ELSE -1

\* an initial index taken as found, -1 for a slug no slide has
initialIndex_noFloor(sl) == findIndex(sl)

\* Math.max(readySlides.findIndex((s) => s.slug === sl), 0)
initialIndex(sl) == IF findIndex(sl) > 0 THEN findIndex(sl) ELSE 0

\* the page was loaded at the URL of slide k and shows it, freshly mounted
PageShown(k) ==
    /\ slug = SLIDES[k]
    /\ pendingNav = "none"
    /\ pendingSet = 0
    /\ currentSlide = k
    /\ slide = InitialSlide
    /\ validationTimer = FALSE
    /\ advanceTimer = "none"
    /\ lastEvent = "load"

\* position of a step in a step list, from 0 (Array.indexOf)
indexOf(list, step) == (CHOOSE i \in 1..Len(list) : list[i] = step) - 1

\* ---- Slide0_PKCE ----

Slide0_FLOW_STEPS ==
    << "idle", "user_clicks_login", "generate_pkce", "redirect_to_authorize",
       "user_authenticates", "auth_code_redirect", "spa_sends_to_backend",
       "backend_token_exchange", "auth_server_verifies", "tokens_returned",
       "spa_complete" >>

Slide0_handleStart(s) == [s EXCEPT !.flowStep = "user_clicks_login"]

Slide0_handleNextStep(s) ==
    LET nextIndex == indexOf(Slide0_FLOW_STEPS, s.flowStep) + 1
        next == Slide0_FLOW_STEPS[nextIndex + 1]
    IN  IF nextIndex < Len(Slide0_FLOW_STEPS)
        THEN [s EXCEPT !.showLoginDialog = IF next = "user_authenticates" THEN TRUE ELSE @,
                       !.isValidated = IF next = "auth_server_verifies" THEN FALSE ELSE @,
                       !.flowStep = next]
        ELSE s

Slide0_handlePreviousStep(s) ==
    LET stepIndex == indexOf(Slide0_FLOW_STEPS, s.flowStep)
        prev == Slide0_FLOW_STEPS[stepIndex]
    IN  IF stepIndex > 1
        THEN [s EXCEPT !.showLoginDialog = IF prev = "user_authenticates" THEN TRUE
                                           ELSE IF s.flowStep = "user_authenticates" THEN FALSE
                                           ELSE @,
                       !.flowStep = prev]
        ELSE s

\* a login handler that leaves the dialog flag set
Slide0_handleLogin_keepsDialog(s) == [s EXCEPT !.flowStep = "auth_code_redirect"]

Slide0_handleLogin(s) ==
    [s EXCEPT !.showLoginDialog = FALSE, !.flowStep = "auth_code_redirect"]

Slide0_handleReset(s) ==
    [s EXCEPT !.flowStep = "idle", !.showLoginDialog = FALSE, !.isValidated = FALSE]

\* a Next button that stays enabled on the login step
Slide0_canGoNext_atLogin(s) == s.flowStep # "idle" /\ s.flowStep # "spa_complete"

Slide0_canGoNext(s) ==
    /\ s.flowStep # "idle"
    /\ s.flowStep # "user_authenticates"
    /\ s.flowStep # "spa_complete"

Slide0_canGoPrevious(s) == s.flowStep # "idle" /\ s.flowStep # "user_clicks_login"

\* the validation effect starts its timer
Slide0_validating(s) == s.flowStep = "auth_server_verifies" /\ ~s.isValidated

\* ---- Slide1_OAuthConsent ----

Slide1_FLOW_STEPS ==
    << "idle", "user_clicks_login", "auth_request", "login_shown", "idp_validates",
       "tokens_received" >>

Slide1_handleStartOAuth(s) == [s EXCEPT !.flowStep = "user_clicks_login"]

Slide1_handleNextStep(s) ==
    CASE s.flowStep = "idle" -> Slide1_handleStartOAuth(s)
      [] s.flowStep = "user_clicks_login" -> [s EXCEPT !.flowStep = "auth_request"]
      [] s.flowStep = "auth_request" ->
            [s EXCEPT !.flowStep = "login_shown", !.showLoginDialog = TRUE]
      [] s.flowStep = "idp_validates" ->
            [s EXCEPT !.idToken = TRUE, !.flowStep = "tokens_received"]
      [] OTHER -> s

Slide1_handlePreviousStep(s) ==
    CASE s.flowStep = "tokens_received" ->
            [s EXCEPT !.idToken = FALSE, !.isValidated = TRUE, !.flowStep = "idp_validates"]
      [] s.flowStep = "idp_validates" ->
            [s EXCEPT !.isValidated = FALSE, !.flowStep = "login_shown",
                      !.showLoginDialog = TRUE]
      [] s.flowStep = "login_shown" ->
            [s EXCEPT !.showLoginDialog = FALSE, !.flowStep = "auth_request"]
      [] s.flowStep = "auth_request" -> [s EXCEPT !.flowStep = "user_clicks_login"]
      [] s.flowStep = "user_clicks_login" -> [s EXCEPT !.flowStep = "idle"]
      [] OTHER -> s

Slide1_handleLogin(s) ==
    [s EXCEPT !.username = TRUE, !.showLoginDialog = FALSE, !.isValidated = FALSE,
              !.flowStep = "idp_validates"]

Slide1_handleReset(s) ==
    [s EXCEPT !.flowStep = "idle", !.idToken = FALSE, !.username = FALSE,
              !.showLoginDialog = FALSE, !.isValidated = FALSE]

Slide1_canGoNext(s) ==
    /\ s.flowStep # "idle"
    /\ s.flowStep # "login_shown"
    /\ s.flowStep # "tokens_received"

Slide1_canGoPrevious(s) == s.flowStep # "idle"

Slide1_validating(s) == s.flowStep = "idp_validates" /\ ~s.isValidated

\* ---- Slide2_AppToApp ----

Slide2_FLOW_STEPS ==
    << "idle", "calendar_to_zoom", "zoom_sso_request", "idp_validates",
       "id_token_received", "scope_request", "consent_shown", "access_token_issued",
       "api_call", "api_response" >>

Slide2_handleStartFlow(s) == [s EXCEPT !.flowStep = "calendar_to_zoom"]

Slide2_handleNextStep(s) ==
    CASE s.flowStep = "idle" -> Slide2_handleStartFlow(s)
      [] s.flowStep = "calendar_to_zoom" -> [s EXCEPT !.flowStep = "zoom_sso_request"]
      [] s.flowStep = "zoom_sso_request" ->
            [s EXCEPT !.isValidated = FALSE, !.flowStep = "idp_validates"]
      [] s.flowStep = "id_token_received" -> [s EXCEPT !.flowStep = "scope_request"]
      [] s.flowStep = "scope_request" ->
            [s EXCEPT !.flowStep = "consent_shown", !.showConsentDialog = TRUE]
      [] s.flowStep = "access_token_issued" -> [s EXCEPT !.flowStep = "api_call"]
      [] s.flowStep = "api_call" ->
            [s EXCEPT !.flowStep = "api_response", !.meetingResponse = TRUE]
      [] OTHER -> s

Slide2_handleAllow(s) ==
    [s EXCEPT !.showConsentDialog = FALSE, !.flowStep = "access_token_issued",
              !.zoomAccessToken = TRUE]

Slide2_handleDeny(s) ==
    [s EXCEPT !.flowStep = "idle", !.zoomAccessToken = FALSE, !.meetingResponse = FALSE]

Slide2_handlePreviousStep(s) ==
    CASE s.flowStep = "api_response" ->
            [s EXCEPT !.meetingResponse = FALSE, !.flowStep = "api_call"]
      [] s.flowStep = "api_call" -> [s EXCEPT !.flowStep = "access_token_issued"]
      [] s.flowStep = "access_token_issued" ->
            [s EXCEPT !.zoomAccessToken = FALSE, !.flowStep = "consent_shown",
                      !.showConsentDialog = TRUE]
      [] s.flowStep = "consent_shown" ->
            [s EXCEPT !.showConsentDialog = FALSE, !.flowStep = "scope_request"]
      [] s.flowStep = "scope_request" -> [s EXCEPT !.flowStep = "id_token_received"]
      [] s.flowStep = "id_token_received" ->
            [s EXCEPT !.idToken = FALSE, !.isValidated = TRUE, !.flowStep = "idp_validates"]
      [] s.flowStep = "idp_validates" ->
            [s EXCEPT !.isValidated = FALSE, !.flowStep = "zoom_sso_request"]
      [] s.flowStep = "zoom_sso_request" -> [s EXCEPT !.flowStep = "calendar_to_zoom"]
      [] s.flowStep = "calendar_to_zoom" -> [s EXCEPT !.flowStep = "idle"]
      [] OTHER -> s

Slide2_handleReset(s) ==
    [s EXCEPT !.flowStep = "idle", !.zoomAccessToken = FALSE, !.idToken = FALSE,
              !.isValidated = FALSE, !.meetingResponse = FALSE,
              !.showConsentDialog = FALSE, !.showTerminal = FALSE]

Slide2_canGoNext(s) ==
    /\ s.flowStep # "idle"
    /\ s.flowStep # "idp_validates"
    /\ s.flowStep # "consent_shown"
    /\ s.flowStep # "api_response"

Slide2_canGoPrevious(s) == s.flowStep # "idle"

Slide2_validating(s) == s.flowStep = "idp_validates" /\ ~s.isValidated

\* ---- Slide3_DelegatedApiKey ----

Slide3_FLOW_STEPS ==
    << "idle", "user_has_api_key", "user_shares_key", "agent_receives_key",
       "agent_makes_call", "api_response" >>

Slide3_handleStartFlow(s) == [s EXCEPT !.flowStep = "user_has_api_key"]

Slide3_handleNextStep(s) ==
    CASE s.flowStep = "idle" -> Slide3_handleStartFlow(s)
      [] s.flowStep = "user_has_api_key" -> [s EXCEPT !.flowStep = "user_shares_key"]
      [] s.flowStep = "user_shares_key" -> [s EXCEPT !.flowStep = "agent_receives_key"]
      [] s.flowStep = "agent_receives_key" -> [s EXCEPT !.flowStep = "agent_makes_call"]
      [] s.flowStep = "agent_makes_call" -> [s EXCEPT !.flowStep = "api_response"]
      [] OTHER -> s

Slide3_handlePreviousStep(s) ==
    CASE s.flowStep = "api_response" -> [s EXCEPT !.flowStep = "agent_makes_call"]
      [] s.flowStep = "agent_makes_call" -> [s EXCEPT !.flowStep = "agent_receives_key"]
      [] s.flowStep = "agent_receives_key" -> [s EXCEPT !.flowStep = "user_shares_key"]
      [] s.flowStep = "user_shares_key" -> [s EXCEPT !.flowStep = "user_has_api_key"]
      [] s.flowStep = "user_has_api_key" -> [s EXCEPT !.flowStep = "idle"]
      [] OTHER -> s

Slide3_handleReset(s) == [s EXCEPT !.flowStep = "idle"]

\* a Next button that stays enabled on the last step
Slide3_canGoNext_atLast(s) == s.flowStep # "idle"

Slide3_canGoNext(s) == s.flowStep # "idle" /\ s.flowStep # "api_response"

Slide3_canGoPrevious(s) == s.flowStep # "idle"

\* ---- Slide4_AgentAsOAuthClient ----

Slide4_FLOW_STEPS ==
    << "idle", "user_sso", "idp_validates", "idp_returns_id_token",
       "agent_requests_zoom", "zoom_redirects_to_idp", "idp_validates_identity",
       "idp_returns_id_token_to_zoom", "agent_requests_scopes", "consent_shown",
       "zoom_issues_access_token", "agent_calls_api", "zoom_responds" >>

Slide4_handleStartFlow(s) == [s EXCEPT !.isValidated = FALSE, !.flowStep = "user_sso"]

Slide4_handleNextStep(s) ==
    CASE s.flowStep = "idle" -> Slide4_handleStartFlow(s)
      [] s.flowStep = "user_sso" ->
            [s EXCEPT !.isValidated = FALSE, !.flowStep = "idp_validates"]
      [] s.flowStep = "idp_returns_id_token" -> [s EXCEPT !.flowStep = "agent_requests_zoom"]
      [] s.flowStep = "agent_requests_zoom" -> [s EXCEPT !.flowStep = "zoom_redirects_to_idp"]
      [] s.flowStep = "zoom_redirects_to_idp" ->
            [s EXCEPT !.isValidated = FALSE, !.flowStep = "idp_validates_identity"]
      [] s.flowStep = "idp_returns_id_token_to_zoom" ->
            [s EXCEPT !.flowStep = "agent_requests_scopes"]
      [] s.flowStep = "agent_requests_scopes" ->
            [s EXCEPT !.flowStep = "consent_shown", !.showConsentDialog = TRUE]
      [] s.flowStep = "zoom_issues_access_token" -> [s EXCEPT !.flowStep = "agent_calls_api"]
      [] s.flowStep = "agent_calls_api" -> [s EXCEPT !.flowStep = "zoom_responds"]
      [] OTHER -> s

Slide4_handlePreviousStep(s) ==
    CASE s.flowStep = "zoom_responds" -> [s EXCEPT !.flowStep = "agent_calls_api"]
      [] s.flowStep = "agent_calls_api" -> [s EXCEPT !.flowStep = "zoom_issues_access_token"]
      [] s.flowStep = "zoom_issues_access_token" ->
            [s EXCEPT !.showConsentDialog = TRUE, !.flowStep = "consent_shown"]
      [] s.flowStep = "consent_shown" ->
            [s EXCEPT !.showConsentDialog = FALSE, !.flowStep = "agent_requests_scopes"]
      [] s.flowStep = "agent_requests_scopes" ->
            [s EXCEPT !.flowStep = "idp_returns_id_token_to_zoom"]
      [] s.flowStep = "idp_returns_id_token_to_zoom" ->
            [s EXCEPT !.isValidated = TRUE, !.flowStep = "idp_validates_identity"]
      [] s.flowStep = "idp_validates_identity" ->
            [s EXCEPT !.isValidated = FALSE, !.flowStep = "zoom_redirects_to_idp"]
      [] s.flowStep = "zoom_redirects_to_idp" -> [s EXCEPT !.flowStep = "agent_requests_zoom"]
      [] s.flowStep = "agent_requests_zoom" -> [s EXCEPT !.flowStep = "idp_returns_id_token"]
      [] s.flowStep = "idp_returns_id_token" ->
            [s EXCEPT !.isValidated = TRUE, !.flowStep = "idp_validates"]
      [] s.flowStep = "idp_validates" ->
            [s EXCEPT !.isValidated = FALSE, !.flowStep = "user_sso"]
      [] s.flowStep = "user_sso" -> [s EXCEPT !.flowStep = "idle"]
      [] OTHER -> s

Slide4_handleAllow(s) ==
    [s EXCEPT !.showConsentDialog = FALSE, !.flowStep = "zoom_issues_access_token"]

Slide4_handleDeny(s) ==
    [s EXCEPT !.showConsentDialog = FALSE, !.flowStep = "idle", !.isValidated = FALSE]

Slide4_handleReset(s) ==
    [s EXCEPT !.flowStep = "idle", !.isValidated = FALSE, !.showConsentDialog = FALSE]

Slide4_canGoNext(s) ==
    /\ s.flowStep # "idle"
    /\ s.flowStep # "idp_validates"
    /\ s.flowStep # "idp_validates_identity"
    /\ s.flowStep # "consent_shown"
    /\ s.flowStep # "zoom_responds"

Slide4_canGoPrevious(s) == s.flowStep # "idle"

Slide4_validating(s) ==
    \/ s.flowStep = "idp_validates" /\ ~s.isValidated
    \/ s.flowStep = "idp_validates_identity" /\ ~s.isValidated

\* ---- Slide5_CrossAppAccess ----

Slide5_FLOW_STEPS ==
    << "idle", "agent_sso", "idp_returns_id_token", "agent_requests_id_jag",
       "idp_issues_id_jag", "agent_presents_id_jag", "zoom_validates_id_jag",
       "zoom_issues_access_token", "agent_calls_api", "zoom_responds" >>

Slide5_handleStartFlow(s) == [s EXCEPT !.isValidated = FALSE, !.flowStep = "agent_sso"]

Slide5_handleNextStep(s) ==
    CASE s.flowStep = "idle" -> Slide5_handleStartFlow(s)
      [] s.flowStep = "idp_returns_id_token" ->
            [s EXCEPT !.idToken = TRUE, !.flowStep = "agent_requests_id_jag"]
      [] s.flowStep = "agent_requests_id_jag" -> [s EXCEPT !.flowStep = "idp_issues_id_jag"]
      [] s.flowStep = "idp_issues_id_jag" ->
            [s EXCEPT !.idJag = TRUE, !.flowStep = "agent_presents_id_jag"]
      [] s.flowStep = "agent_presents_id_jag" ->
            [s EXCEPT !.flowStep = "zoom_validates_id_jag"]
      [] s.flowStep = "zoom_validates_id_jag" ->
            [s EXCEPT !.flowStep = "zoom_issues_access_token"]
      [] s.flowStep = "zoom_issues_access_token" ->
            [s EXCEPT !.accessToken = TRUE, !.flowStep = "agent_calls_api"]
      [] s.flowStep = "agent_calls_api" -> [s EXCEPT !.flowStep = "zoom_responds"]
      [] OTHER -> s

Slide5_handlePreviousStep(s) ==
    CASE s.flowStep = "zoom_responds" -> [s EXCEPT !.flowStep = "agent_calls_api"]
      [] s.flowStep = "agent_calls_api" ->
            [s EXCEPT !.accessToken = FALSE, !.flowStep = "zoom_issues_access_token"]
      [] s.flowStep = "zoom_issues_access_token" ->
            [s EXCEPT !.flowStep = "zoom_validates_id_jag"]
      [] s.flowStep = "zoom_validates_id_jag" ->
            [s EXCEPT !.flowStep = "agent_presents_id_jag"]
      [] s.flowStep = "agent_presents_id_jag" -> [s EXCEPT !.flowStep = "idp_issues_id_jag"]
      [] s.flowStep = "idp_issues_id_jag" ->
            [s EXCEPT !.idJag = FALSE, !.flowStep = "agent_requests_id_jag"]
      [] s.flowStep = "agent_requests_id_jag" -> [s EXCEPT !.flowStep = "idp_returns_id_token"]
      [] s.flowStep = "idp_returns_id_token" ->
            [s EXCEPT !.idToken = FALSE, !.isValidated = TRUE, !.flowStep = "agent_sso"]
      [] s.flowStep = "agent_sso" -> [s EXCEPT !.isValidated = FALSE, !.flowStep = "idle"]
      [] OTHER -> s

\* a reset that returns to idle and keeps the tokens
Slide5_handleReset_keepsTokens(s) == [s EXCEPT !.flowStep = "idle", !.isValidated = FALSE]

Slide5_handleReset(s) ==
    [s EXCEPT !.flowStep = "idle", !.idToken = FALSE, !.idJag = FALSE,
              !.accessToken = FALSE, !.isValidated = FALSE]

Slide5_canGoNext(s) ==
    /\ s.flowStep # "idle"
    /\ s.flowStep # "agent_sso"
    /\ s.flowStep # "zoom_responds"

Slide5_canGoPrevious(s) == s.flowStep # "idle"

Slide5_validating(s) == s.flowStep = "agent_sso" /\ ~s.isValidated

\* ---- the slide shown by PresentationPage and its SlideLayout props ----

NumSlides == 6
MaxDigit == 9

FLOW_STEPS(k) ==
    CASE k = 1 -> Slide0_FLOW_STEPS [] k = 2 -> Slide1_FLOW_STEPS
      [] k = 3 -> Slide2_FLOW_STEPS [] k = 4 -> Slide3_FLOW_STEPS
      [] k = 5 -> Slide4_FLOW_STEPS [] k = 6 -> Slide5_FLOW_STEPS

onStart(k, s) ==
    CASE k = 1 -> Slide0_handleStart(s) [] k = 2 -> Slide1_handleStartOAuth(s)
      [] k = 3 -> Slide2_handleStartFlow(s) [] k = 4 -> Slide3_handleStartFlow(s)
      [] k = 5 -> Slide4_handleStartFlow(s) [] k = 6 -> Slide5_handleStartFlow(s)

onNext(k, s) ==
    CASE k = 1 -> Slide0_handleNextStep(s) [] k = 2 -> Slide1_handleNextStep(s)
      [] k = 3 -> Slide2_handleNextStep(s) [] k = 4 -> Slide3_handleNextStep(s)
      [] k = 5 -> Slide4_handleNextStep(s) [] k = 6 -> Slide5_handleNextStep(s)

onPrevious(k, s) ==
    CASE k = 1 -> Slide0_handlePreviousStep(s) [] k = 2 -> Slide1_handlePreviousStep(s)
      [] k = 3 -> Slide2_handlePreviousStep(s) [] k = 4 -> Slide3_handlePreviousStep(s)
      [] k = 5 -> Slide4_handlePreviousStep(s) [] k = 6 -> Slide5_handlePreviousStep(s)

onReset(k, s) ==
    CASE k = 1 -> Slide0_handleReset(s) [] k = 2 -> Slide1_handleReset(s)
      [] k = 3 -> Slide2_handleReset(s) [] k = 4 -> Slide3_handleReset(s)
      [] k = 5 -> Slide4_handleReset(s) [] k = 6 -> Slide5_handleReset(s)

canGoNext(k, s) ==
    CASE k = 1 -> Slide0_canGoNext(s) [] k = 2 -> Slide1_canGoNext(s)
      [] k = 3 -> Slide2_canGoNext(s) [] k = 4 -> Slide3_canGoNext(s)
      [] k = 5 -> Slide4_canGoNext(s) [] k = 6 -> Slide5_canGoNext(s)

canGoPrevious(k, s) ==
    CASE k = 1 -> Slide0_canGoPrevious(s) [] k = 2 -> Slide1_canGoPrevious(s)
      [] k = 3 -> Slide2_canGoPrevious(s) [] k = 4 -> Slide3_canGoPrevious(s)
      [] k = 5 -> Slide4_canGoPrevious(s) [] k = 6 -> Slide5_canGoPrevious(s)

onLogin(k, s) == IF k = 1 THEN Slide0_handleLogin(s) ELSE Slide1_handleLogin(s)

onAllow(k, s) == IF k = 3 THEN Slide2_handleAllow(s) ELSE Slide4_handleAllow(s)

onDeny(k, s) == IF k = 3 THEN Slide2_handleDeny(s) ELSE Slide4_handleDeny(s)

\* the condition under which the slide's validation effect starts its timer
validating(k, s) ==
    CASE k = 1 -> Slide0_validating(s) [] k = 2 -> Slide1_validating(s)
      [] k = 3 -> Slide2_validating(s) [] k = 4 -> FALSE
      [] k = 5 -> Slide4_validating(s) [] k = 6 -> Slide5_validating(s)

\* what the 1500 ms callback of the validation effect sets
validated(k, s) ==
    IF k = 3 THEN [s EXCEPT !.isValidated = TRUE, !.idToken = TRUE]
    ELSE [s EXCEPT !.isValidated = TRUE]

\* the step the 1000 ms timer started by that callback will set
advanceTarget(k, s) ==
    CASE k = 3 -> "id_token_received"
      [] k = 5 -> IF s.flowStep = "idp_validates" THEN "idp_returns_id_token"
                  ELSE "idp_returns_id_token_to_zoom"
      [] k = 6 -> "idp_returns_id_token"
      [] OTHER -> "none"

\* ---- HttpRequestPanel and InsightsPanel of the slide shown ----

\* stepId of the entries of httpEntries, in the order they are pushed; an
\* entry's id is modelled by its stepId (each slide has one entry per step)
httpSteps(k) ==
    CASE k = 1 -> << "redirect_to_authorize", "auth_code_redirect",
                     "spa_sends_to_backend", "backend_token_exchange" >>
      [] k = 2 -> << "auth_request", "tokens_received" >>
      [] k = 3 -> << "zoom_sso_request", "id_token_received", "scope_request",
                     "access_token_issued", "api_call" >>
      [] k = 4 -> << "agent_makes_call" >>
      [] k = 5 -> << "user_sso", "idp_returns_id_token", "agent_requests_zoom",
                     "zoom_redirects_to_idp", "agent_requests_scopes",
                     "zoom_issues_access_token", "agent_calls_api" >>
      [] k = 6 -> << "agent_sso", "idp_returns_id_token", "agent_requests_id_jag",
                     "agent_presents_id_jag", "agent_calls_api" >>

\* reached(step): stepIndex >= FLOW_STEPS.indexOf(step)
reached(k, s, step) ==
    indexOf(FLOW_STEPS(k), s.flowStep) >= indexOf(FLOW_STEPS(k), step)

\* httpEntries: the entries of the steps reached
httpEntries(k, s) == SelectSeq(httpSteps(k), LAMBDA step : reached(k, s, step))

SeqRange(q) == {q[i] : i \in 1..Len(q)}

\* selectedEntryId after the effects of HttpRequestPanel have run for the
\* render with the slide state new that follows the state old.  entries is a
\* new array when flowStep changed.  Effect 1 selects the entry of the
\* active step; effect 2 selects the last entry when none was selected, and
\* its setSelectedEntryId is the later one of the same render.
HttpRequestPanel_effects(k, old, new) ==
    LET entries == httpEntries(k, new)
        fresh == new.flowStep # old.flowStep
    IN  IF fresh /\ new.selectedEntryId = "none" /\ Len(entries) > 0
        THEN entries[Len(entries)]
        ELSE IF fresh /\ new.flowStep \in SeqRange(entries)
        THEN new.flowStep
        ELSE new.selectedEntryId

\* stepId of the entries of insightEntries
insightSteps(k) ==
    CASE k = 4 -> {"api_response"}
      [] k = 5 -> {"zoom_responds"}
      [] OTHER -> {}

\* hasInsights: activeEntries.length > 0
hasInsights(k, s) == s.flowStep \in insightSteps(k)

\* an effect that leaves isOpen as it is
InsightsPanel_effect_keepsOpen(k, old, new) == new.insightsOpen

\* isOpen after the effect of InsightsPanel: a step change to a step without
\* insights closes the panel
InsightsPanel_effect(k, old, new) ==
    IF new.flowStep # old.flowStep /\ ~hasInsights(k, new)
    THEN FALSE
    ELSE new.insightsOpen

\* the slide state once the effects of both panels have run
panels(k, old, new) ==
    [new EXCEPT !.selectedEntryId = HttpRequestPanel_effects(k, old, new),
                !.insightsOpen = InsightsPanel_effect(k, old, new)]

\* a listener that calls onNext whatever canGoNext is
handleGlobalNextStep_ignoresCanGoNext(k, s) ==
    IF s.flowStep = "idle" THEN onStart(k, s) ELSE onNext(k, s)

\* SlideLayout: the listener of the slideNextStep event
handleGlobalNextStep(k, s) ==
    IF s.flowStep = "idle" THEN onStart(k, s)
    ELSE IF canGoNext(k, s) THEN onNext(k, s)
    ELSE s

\* ------------------------------------------------------------------------
\* State after the first render and its effects
\* ------------------------------------------------------------------------

Mounted(r, edgs) ==
    /\ refs = r
    /\ edges = edgs
    /\ nodesData = updateNodePositions(r)
    /\ paths = EmptyFn
    /\ dashOffset = 0
    /\ mounted = TRUE
    /\ rafPending = hasPulsing(edgs)
    /\ timers = TimerDelays
    /\ calcInterval = TRUE
    /\ regInterval = TRUE
    /\ resizeListener = TRUE
    /\ dom = render(edgs, EmptyFn, 0)
    /\ calcIn = NoCalc
    /\ calcEdges = edgs

Handles(ea, eb, ec) == [n \in Nodes |-> IF n = "a" THEN ea ELSE IF n = "b" THEN eb ELSE ec]

Init ==
    \E ea \in ElementStates("a"), eb \in ElementStates("b"), ec \in ElementStates("c"),
       edgs \in EdgeConfigs :
        Mounted(Handles(ea, eb, ec), edgs) /\ PageShown(1)

InitGeom ==
    \E ea \in GeomElements("a"), eb \in GeomElements("b"), ec \in GeomElements("c") :
        Mounted(Handles(ea, eb, ec), GeomEdges) /\ PageShown(1)

InitRegistry == Mounted(Handles(ElA, ElB, ElC(0)), GeomEdges) /\ PageShown(1)

\* ------------------------------------------------------------------------
\* Operations
\* ------------------------------------------------------------------------

\* a pass that routes only the edges that have no stored route yet
calculatePaths_skipStored ==
    /\ paths' = [id \in routedIds(calcEdges, nodesData) \ DOMAIN paths |->
                   route(calcEdges[id], nodesData)]
    /\ calcIn' = [done |-> TRUE, edges |-> calcEdges, reg |-> nodesData]
    /\ dom' = render(edges, paths', dashOffset)

\* calculatePaths: a fresh map from the edges of the render whose effect
\* created the closure and the registry as it is now, then setPaths and the
\* render it causes
calculatePaths ==
    /\ paths' = newPaths(calcEdges, nodesData)
    /\ calcIn' = [done |-> TRUE, edges |-> calcEdges, reg |-> nodesData]
    /\ dom' = render(edges, paths', dashOffset)

\* one of timer1..timer4 fires: they were set together, so in order of delay
TimerFires ==
    /\ timers # {}
    /\ timers' = timers \ {SetMin(timers)}
    /\ calculatePaths
    /\ UNCHANGED <<refs, nodesData, edges, dashOffset, mounted, rafPending,
                   calcInterval, regInterval, resizeListener>>
    /\ UNCHANGED <<calcEdges, slideVars>>

\* the 1000 ms interval ticks; its first tick comes after timer4
IntervalTick ==
    /\ calcInterval
    /\ 1000 \notin timers
    /\ calculatePaths
    /\ UNCHANGED <<refs, nodesData, edges, dashOffset, mounted, rafPending,
                   timers, calcInterval, regInterval, resizeListener>>
    /\ UNCHANGED <<calcEdges, slideVars>>

\* the window is resized
Resize ==
    /\ resizeListener
    /\ calculatePaths
    /\ UNCHANGED <<refs, nodesData, edges, dashOffset, mounted, rafPending,
                   timers, calcInterval, regInterval, resizeListener>>
    /\ UNCHANGED <<calcEdges, slideVars>>

\* a refresh that updates the stored map in place
RefreshRegistry_inPlace ==
    nodesData' = [n \in DOMAIN updateNodePositions(refs) \cup DOMAIN nodesData |->
                    IF n \in DOMAIN updateNodePositions(refs)
                    THEN updateNodePositions(refs)[n] ELSE nodesData[n]]

\* updateNodePositions stores a new map in nodesDataRef
RefreshRegistry == nodesData' = updateNodePositions(refs)

\* the 200 ms interval ticks: a ref is written, nothing is rendered
RegistryTick ==
    /\ regInterval
    /\ RefreshRegistry
    /\ UNCHANGED <<refs, edges, paths, dashOffset, mounted, rafPending, timers,
                   calcInterval, regInterval, resizeListener, dom, calcIn>>
    /\ UNCHANGED <<calcEdges, slideVars>>

\* a frame that also runs a pass of calculatePaths
AnimationFrame_recalculating ==
    /\ rafPending
    /\ dashOffset' = (dashOffset + dashStep) % dashPeriod
    /\ rafPending' = TRUE
    /\ paths' = newPaths(edges, nodesData)
    /\ calcIn' = [done |-> TRUE, edges |-> edges, reg |-> nodesData]
    /\ dom' = render(edges, paths', dashOffset')
    /\ UNCHANGED <<refs, nodesData, edges, mounted, timers,
                   calcInterval, regInterval, resizeListener>>
    /\ UNCHANGED <<calcEdges, slideVars>>

\* animate: the pending frame runs, advances the phase and requests the next
AnimationFrame ==
    /\ rafPending
    /\ dashOffset' = (dashOffset + dashStep) % dashPeriod
    /\ rafPending' = TRUE
    /\ dom' = render(edges, paths, dashOffset')
    /\ UNCHANGED <<refs, nodesData, edges, paths, mounted, timers,
                   calcInterval, regInterval, resizeListener, calcIn>>
    /\ UNCHANGED <<calcEdges, slideVars>>

\* cleanup of the pulse effect: only an effect run that found a pulsing edge
\* returned one
pulseCleanup(edgs, pending) == IF hasPulsing(edgs) THEN FALSE ELSE pending

\* the pulse effect run for the declarations edgs
pulseEffect(edgs, pending) == IF hasPulsing(edgs) THEN TRUE ELSE pending

\* a render with new declarations whose recomputation effect is not run again:
\* the timers, the interval and the listener of the earlier run stay
SetEdges_keepsClosure ==
    /\ mounted
    /\ \E edgs \in EdgeConfigs :
        /\ edges' = edgs
        /\ dom' = render(edgs, paths, dashOffset)
        /\ rafPending' = pulseEffect(edgs, pulseCleanup(edges, rafPending))
    /\ UNCHANGED <<refs, nodesData, paths, dashOffset, mounted, regInterval, calcIn,
                   timers, calcInterval, resizeListener, calcEdges>>
    /\ UNCHANGED slideVars

\* a render with new declarations that sets the phase to 0 when no edge pulses
SetEdges_resetsPhase ==
    /\ mounted
    /\ \E edgs \in EdgeConfigs :
        /\ edges' = edgs
        /\ dashOffset' = IF hasPulsing(edgs) THEN dashOffset ELSE 0
        /\ dom' = render(edgs, paths, dashOffset')
        /\ rafPending' = pulseEffect(edgs, pulseCleanup(edges, rafPending))
    /\ timers' = TimerDelays
    /\ calcInterval' = TRUE
    /\ resizeListener' = TRUE
    /\ calcEdges' = edges'
    /\ UNCHANGED <<refs, nodesData, paths, mounted, regInterval, calcIn>>
    /\ UNCHANGED slideVars

\* the parent renders the layer with new edge declarations: render, then the
\* cleanups and the effects that depend on [edges]
SetEdges ==
    /\ mounted
    /\ \E edgs \in EdgeConfigs :
        /\ edges' = edgs
        /\ dom' = render(edgs, paths, dashOffset)
        /\ rafPending' = pulseEffect(edgs, pulseCleanup(edges, rafPending))
    /\ timers' = TimerDelays
    /\ calcInterval' = TRUE
    /\ resizeListener' = TRUE
    /\ calcEdges' = edges'
    /\ UNCHANGED <<refs, nodesData, paths, dashOffset, mounted, regInterval, calcIn>>
    /\ UNCHANGED slideVars

\* an unmount whose registry effect returns no cleanup
Unmount_keepsRegistryInterval ==
    /\ mounted
    /\ mounted' = FALSE
    /\ rafPending' = FALSE
    /\ timers' = {}
    /\ calcInterval' = FALSE
    /\ resizeListener' = FALSE
    /\ dom' = EmptyDom
    /\ UNCHANGED <<refs, nodesData, edges, paths, dashOffset, calcIn, regInterval>>
    /\ UNCHANGED <<calcEdges, slideVars>>

\* the layer is unmounted: every effect's cleanup runs
Unmount ==
    /\ mounted
    /\ mounted' = FALSE
    /\ rafPending' = pulseCleanup(edges, rafPending)
    /\ regInterval' = FALSE
    /\ timers' = {}
    /\ calcInterval' = FALSE
    /\ resizeListener' = FALSE
    /\ dom' = EmptyDom
    /\ UNCHANGED <<refs, nodesData, edges, paths, dashOffset, calcIn>>
    /\ UNCHANGED <<calcEdges, slideVars>>

\* a card is mounted, unmounted or moved by the Stage
ElementChange ==
    /\ \E n \in Nodes : \E el \in ElementStates(n) :
        /\ el # refs[n]
        /\ refs' = [refs EXCEPT ![n] = el]
    /\ UNCHANGED <<nodesData, edges, paths, dashOffset, mounted, rafPending, timers,
                   calcInterval, regInterval, resizeListener, dom, calcIn>>
    /\ UNCHANGED <<calcEdges, slideVars>>

Next ==
    \/ TimerFires
    \/ IntervalTick
    \/ Resize
    \/ RegistryTick
    \/ AnimationFrame
    \/ SetEdges
    \/ Unmount
    \/ ElementChange

Spec == Init /\ [][Next]_vars

\* the four staggered passes over one layout
NextGeom == TimerFires

\* labelled edges over the row of cards
InitLabels ==
    \E ec \in {ElC(k) : k \in 0..MaxShift}, l1 \in LabelLengths, l2 \in LabelLengths :
        Mounted(Handles(ElA, ElB, ec), LabelEdges(l1, l2)) /\ PageShown(1)

\* the window is resized while the retries run
NextLabels == TimerFires \/ Resize

SpecLabels == InitLabels /\ [][NextLabels]_vars

SpecGeom == InitGeom /\ [][NextGeom]_vars

\* The layer without the frame loop, which writes neither the routes nor the
\* registry; while the layer is mounted a staggered timer or the 1000 ms
\* interval is always due to fire.
NextRoutes ==
    \/ TimerFires
    \/ IntervalTick
    \/ Resize
    \/ RegistryTick
    \/ SetEdges
    \/ Unmount
    \/ ElementChange

SpecRoutes == Init /\ [][NextRoutes]_vars /\ WF_vars(TimerFires \/ IntervalTick)

\* a card is mounted, unmounted or given another inline position
StyleChange ==
    /\ \E n \in Nodes : \E el \in StyledElements(n) :
        /\ el # refs[n]
        /\ refs' = [refs EXCEPT ![n] = el]
    /\ UNCHANGED <<nodesData, edges, paths, dashOffset, mounted, rafPending, timers,
                   calcInterval, regInterval, resizeListener, dom, calcIn>>
    /\ UNCHANGED <<calcEdges, slideVars>>

\* The registry under inline positions of every kind: refreshes and passes
\* of the mounted layer while one card is restyled.
NextRegistry ==
    \/ RegistryTick
    \/ TimerFires
    \/ IntervalTick
    \/ StyleChange

SpecRegistry == InitRegistry /\ [][NextRegistry]_vars

\* ------------------------------------------------------------------------
\* Presentation page: inputs and timers of the slide shown
\* ------------------------------------------------------------------------

\* the slide component renders with the state new; the validation effect
\* runs again when flowStep or isValidated changed: its cleanup clears the
\* 1500 ms timer, then the timer is started if the condition holds
Update(new, event) ==
    /\ slide' = panels(currentSlide, slide, new)
    /\ validationTimer' =
          IF <<new.flowStep, new.isValidated>> # <<slide.flowStep, slide.isValidated>>
          THEN validating(currentSlide, new)
          ELSE validationTimer
    /\ lastEvent' = event
    /\ UNCHANGED <<currentSlide, advanceTimer>>
    /\ UNCHANGED urlVars
    /\ UNCHANGED layerVars

\* keydown of ' ', ArrowRight, PageDown or n: slideNextStep is dispatched
\* the listener of the SlideLayout of the slide shown handles it
SlideNextStep ==
    /\ currentSlide \in 1..NumSlides
    /\ Update(handleGlobalNextStep(currentSlide, slide), "slideNextStep")

ClickStart ==
    /\ slide.flowStep = "idle"
    /\ Update(onStart(currentSlide, slide), "start")

ClickNext ==
    /\ slide.flowStep # "idle"
    /\ canGoNext(currentSlide, slide)
    /\ Update(onNext(currentSlide, slide), "next")

ClickPrevious ==
    /\ slide.flowStep # "idle"
    /\ canGoPrevious(currentSlide, slide)
    /\ Update(onPrevious(currentSlide, slide), "previous")

ClickReset ==
    /\ slide.flowStep # "idle"
    /\ Update(onReset(currentSlide, slide), "reset")

Login ==
    /\ currentSlide \in {1, 2}
    /\ slide.showLoginDialog
    /\ Update(onLogin(currentSlide, slide), "login")

Allow ==
    /\ currentSlide \in {3, 5}
    /\ slide.showConsentDialog
    /\ Update(onAllow(currentSlide, slide), "allow")

Deny ==
    /\ currentSlide \in {3, 5}
    /\ slide.showConsentDialog
    /\ Update(onDeny(currentSlide, slide), "deny")

\* the open dialog is dismissed: onOpenChange(false)
DismissDialog ==
    /\ slide.showLoginDialog \/ slide.showConsentDialog
    /\ Update([slide EXCEPT !.showLoginDialog = FALSE, !.showConsentDialog = FALSE],
              "dismiss")

\* the terminal button: setShowTerminal((v) => !v)
ToggleTerminal ==
    /\ currentSlide \in 1..NumSlides
    /\ Update([slide EXCEPT !.showTerminal = ~@], "terminal")

\* a click on a listed entry of the HTTP request panel, in the open drawer
SelectEntry ==
    /\ slide.showTerminal
    /\ \E id \in SeqRange(httpEntries(currentSlide, slide)) :
        Update([slide EXCEPT !.selectedEntryId = id], "select")

\* the Insights button, rendered while the active step has insights
ToggleInsights ==
    /\ hasInsights(currentSlide, slide)
    /\ Update([slide EXCEPT !.insightsOpen = ~@], "insights")

\* the close button of the open insights panel
CloseInsights ==
    /\ hasInsights(currentSlide, slide)
    /\ slide.insightsOpen
    /\ Update([slide EXCEPT !.insightsOpen = FALSE], "closeInsights")

\* the 1500 ms timer of the validation effect fires; a 1000 ms timer started
\* by an earlier callback is due before it
ValidationTimerFires ==
    /\ validationTimer
    /\ advanceTimer = "none"
    /\ slide' = validated(currentSlide, slide)
    /\ validationTimer' = FALSE
    /\ advanceTimer' = advanceTarget(currentSlide, slide)
    /\ lastEvent' = "validated"
    /\ UNCHANGED currentSlide
    /\ UNCHANGED urlVars
    /\ UNCHANGED layerVars

\* the 1000 ms timer fires: setFlowStep(target), whatever the step is now
AdvanceTimerFires ==
    /\ advanceTimer # "none"
    /\ slide' = panels(currentSlide, slide, [slide EXCEPT !.flowStep = advanceTimer])
    /\ validationTimer' =
          IF advanceTimer # slide.flowStep
          THEN validating(currentSlide, slide')
          ELSE validationTimer
    /\ advanceTimer' = "none"
    /\ lastEvent' = "advance"
    /\ UNCHANGED currentSlide
    /\ UNCHANGED urlVars
    /\ UNCHANGED layerVars

\* the slide component after a render with slide number n: another number
\* mounts another component in its initial state; the unmounted one clears
\* its 1500 ms timer, and a state update by its 1000 ms timer has no effect
\* any more
mountSlide(n) ==
    IF n = currentSlide
    THEN UNCHANGED <<slide, validationTimer, advanceTimer>>
    ELSE /\ slide' = InitialSlide
         /\ validationTimer' = FALSE
         /\ advanceTimer' = "none"

\* the two sync effects after a render with the URL slug sl and the slide
\* number n; nav and set are the updates still queued.  Effect 1 runs when
\* currentSlide or slug changed and navigates to the slide's slug; effect 2
\* runs when slug changed and sets the slide of the slug.
syncEffects(sl, n, nav, set) ==
    /\ pendingNav' =
          IF (sl # slug \/ n # currentSlide) /\ n \in 1..Len(SLIDES) /\ SLIDES[n] # sl
          THEN SLIDES[n]
          ELSE nav
    /\ pendingSet' =
          IF sl # slug /\ findIndex(sl) # -1 /\ findIndex(sl) + 1 # n
          THEN findIndex(sl) + 1
          ELSE set

\* no update of the page is queued: the effects of the last render are done
rendered == pendingNav = "none" /\ pendingSet = 0

\* setCurrentSlide(n) by a key or a button, the render and its effects
showSlide(n, event) ==
    /\ rendered
    /\ currentSlide' = n
    /\ lastEvent' = event
    /\ mountSlide(n)
    /\ slug' = slug
    /\ syncEffects(slug, n, "none", 0)
    /\ UNCHANGED layerVars

\* the URL is changed from outside the page (browser back/forward) to the
\* slug of a slide or to a slug no slide has; the router renders the page
UrlChange ==
    /\ rendered
    /\ \E sl \in {SLIDES[i] : i \in 1..NumSlides} \cup {NoSuchSlug} :
        /\ sl # slug
        /\ slug' = sl
        /\ syncEffects(sl, currentSlide, "none", 0)
    /\ lastEvent' = "url"
    /\ UNCHANGED <<currentSlide, slide, validationTimer, advanceTimer>>
    /\ UNCHANGED layerVars

\* queued updates are rendered: both in one render, or one of them in a
\* render of its own; then the effects of that render run
CommitUpdates ==
    /\ ~rendered
    /\ \E nav \in {pendingNav, "none"}, set \in {pendingSet, 0} :
        /\ nav # "none" \/ set # 0
        /\ slug' = IF nav # "none" THEN nav ELSE slug
        /\ currentSlide' = IF set # 0 THEN set ELSE currentSlide
        /\ mountSlide(currentSlide')
        /\ syncEffects(slug', currentSlide',
                       IF nav = "none" THEN pendingNav ELSE "none",
                       IF set = 0 THEN pendingSet ELSE 0)
    /\ lastEvent' = "commit"
    /\ UNCHANGED layerVars

\* keydown of ArrowLeft, PageUp or p
KeyPreviousSlide ==
    /\ currentSlide > 1
    /\ showSlide(currentSlide - 1, "previousSlide")

\* keydown of a digit 1..9
KeyDigit ==
    \E slideNum \in 1..MaxDigit :
        /\ slideNum >= 1
        /\ slideNum <= NumSlides
        /\ showSlide(slideNum, "digit")

\* SlideFrame: the next-slide button
FrameNext ==
    /\ currentSlide < NumSlides
    /\ showSlide(currentSlide + 1, "nextSlide")

\* SlideFrame: the previous-slide button, through handleSlideChange
FramePrev ==
    /\ currentSlide > 1
    /\ currentSlide - 1 >= 1 /\ currentSlide - 1 <= NumSlides
    /\ showSlide(currentSlide - 1, "previousSlide")

\* SlideFrame: the button of slide num, enabled when another slide is shown,
\* through handleSlideChange
FrameNumber ==
    \E num \in 1..NumSlides :
        /\ currentSlide # num
        /\ num >= 1 /\ num <= NumSlides
        /\ showSlide(num, "number")

\* the page was loaded at a URL whose slug no slide has: the first slide is
\* mounted and effect 1 of the first render queues navigate to its slug
PageOpenedAtUnknownSlug ==
    /\ slug = NoSuchSlug
    /\ currentSlide = initialIndex(NoSuchSlug) + 1
    /\ pendingNav = IF currentSlide \in 1..Len(SLIDES) THEN SLIDES[currentSlide] ELSE "none"
    /\ pendingSet = 0
    /\ slide = InitialSlide
    /\ validationTimer = FALSE
    /\ advanceTimer = "none"
    /\ lastEvent = "load"

InitSlides ==
    /\ Mounted(Handles(ElA, ElB, ElC(0)), GeomEdges)
    /\ \/ \E k \in 1..NumSlides : PageShown(k)
       \/ PageOpenedAtUnknownSlug

NextSlides ==
    \/ SlideNextStep
    \/ ClickStart
    \/ ClickNext
    \/ ClickPrevious
    \/ ClickReset
    \/ Login
    \/ Allow
    \/ Deny
    \/ DismissDialog
    \/ ToggleTerminal
    \/ ValidationTimerFires
    \/ AdvanceTimerFires
    \/ KeyPreviousSlide
    \/ KeyDigit
    \/ FrameNext
    \/ FramePrev
    \/ FrameNumber
    \/ UrlChange
    \/ CommitUpdates
    \/ SelectEntry
    \/ ToggleInsights
    \/ CloseInsights

SpecSlides == InitSlides /\ [][NextSlides]_vars

\* timers that are due fire and queued updates are rendered; the user and
\* the browser may stay idle for ever
SpecSlidesFair ==
    /\ SpecSlides
    /\ WF_vars(ValidationTimerFires)
    /\ WF_vars(AdvanceTimerFires)
    /\ WF_vars(CommitUpdates)

\* ------------------------------------------------------------------------
\* Geometry used by the properties
\* ------------------------------------------------------------------------

Lo(a, b) == IF a < b THEN a ELSE b
Hi(a, b) == IF a > b THEN a ELSE b

\* the segment from p to q has a point in the interior of the box b
crossesInterior(p, q, b) ==
    /\ Hi(p.x, q.x) > Scale * b.x
    /\ Lo(p.x, q.x) < Scale * (b.x + b.w)
    /\ Hi(p.y, q.y) > Scale * b.y
    /\ Lo(p.y, q.y) < Scale * (b.y + b.h)

pathCrosses(path, b) == \E i \in 1..(Len(path) - 1) : crossesInterior(path[i], path[i + 1], b)

orthogonal(path) ==
    \A i \in 1..(Len(path) - 1) : path[i].x = path[i + 1].x \/ path[i].y = path[i + 1].y

\* the corner points of a path, consecutive equal points counted once
RECURSIVE distinctPoints(_)
distinctPoints(path) ==
    IF Len(path) <= 1 THEN path
    ELSE IF path[1] = path[2] THEN distinctPoints(Tail(path))
    ELSE <<path[1]>> \o distinctPoints(Tail(path))

\* number of inner points at which an orthogonal path turns
bends(path) ==
    LET q == distinctPoints(path)
    IN  Cardinality({i \in 2..(Len(q) - 1) :
                        (q[i - 1].x = q[i].x) # (q[i].x = q[i + 1].x)})

\* the routes stored by the last pass, with the declaration and registry it read
Routed == IF calcIn.done THEN DOMAIN paths ELSE {}
passEdge(id) == calcIn.edges[id]
passBox(n) == calcIn.reg[n]

\* third nodes between the endpoints of the edge along its dominant axis
between(e, reg) ==
    LET f == reg[e.from]
        t == reg[e.to]
    IN  {n \in DOMAIN reg \ {e.from, e.to} :
            IF horizontalDominant(f, t)
            THEN /\ center(reg[n]).x > Lo(center(f).x, center(t).x)
                 /\ center(reg[n]).x < Hi(center(f).x, center(t).x)
            ELSE /\ center(reg[n]).y > Lo(center(f).y, center(t).y)
                 /\ center(reg[n]).y < Hi(center(f).y, center(t).y)}

\* ------------------------------------------------------------------------
\* Properties
\* ------------------------------------------------------------------------

\* C1: at every render an edge with visible = false has no drawn path and no
\* arrowhead marker, whatever route is still stored for it; an edge whose
\* visible is unset is rendered as a visible one.
C1_HiddenEdgeNotRendered ==
    mounted =>
        \A id \in DOMAIN edges :
            /\ edges[id].visible = "false" =>
                   id \notin dom.markers /\ id \notin DOMAIN dom.drawn
            /\ edges[id].visible = "unset" =>
                   id \in dom.markers /\ (id \in DOMAIN paths => id \in DOMAIN dom.drawn)

\* e1 was visible at the last pass and has a stored route, is hidden now
C1_Witness ==
    /\ mounted
    /\ calcIn.done
    /\ calcIn.edges["e1"].visible = "unset"
    /\ "e1" \in DOMAIN paths
    /\ edges["e1"].visible = "false"

\* C2: no segment of a bypass path intersects the box of an obstructing node.
C2_BypassAvoidsObstructors ==
    \A id \in Routed :
        \A n \in intermediateNodes(passEdge(id), calcIn.reg) :
            ~pathCrosses(paths[id].path, passBox(n))

\* C3: no drawn path passes through the interior of the box of a third node
\* that lies between the endpoints along the dominant axis of the edge.
C3_NoPathThroughThirdNode ==
    \A id \in Routed :
        \A n \in between(passEdge(id), calcIn.reg) :
            ~pathCrosses(paths[id].path, passBox(n))

\* C4 as stated: an unobstructed route joins the two anchors exactly, is
\* orthogonal and has at most one bend.
C4_DirectPathOneBend ==
    \A id \in Routed :
        intermediateNodes(passEdge(id), calcIn.reg) = {} =>
            LET f == passBox(passEdge(id).from)
                t == passBox(passEdge(id).to)
                path == paths[id].path
            IN  /\ path[1] = startAnchor(f, t)
                /\ path[Len(path)] = endAnchor(f, t)
                /\ orthogonal(path)
                /\ bends(path) <= 1

\* C4 amended: an unobstructed route joins the two anchors exactly, is
\* orthogonal and has at most two bends (three segments through the middle).
C4_DirectPathTwoBends ==
    \A id \in Routed :
        intermediateNodes(passEdge(id), calcIn.reg) = {} =>
            LET f == passBox(passEdge(id).from)
                t == passBox(passEdge(id).to)
                path == paths[id].path
            IN  /\ path[1] = startAnchor(f, t)
                /\ path[Len(path)] = endAnchor(f, t)
                /\ orthogonal(path)
                /\ bends(path) <= 2

\* an unobstructed route with two bends, and one that is a straight line
C4_Witness ==
    /\ calcIn.done
    /\ "e1" \in DOMAIN paths
    /\ "e2" \in DOMAIN paths
    /\ intermediateNodes(passEdge("e1"), calcIn.reg) = {}
    /\ intermediateNodes(passEdge("e2"), calcIn.reg) = {}
    /\ bends(paths["e1"].path) = 2
    /\ bends(paths["e2"].path) = 0

C6_LoopRunsIffPulsingVisible ==
    /\ [](mounted =>
            (rafPending <=>
                \E id \in DOMAIN edges : edges[id].pulse /\ edges[id].visible # "false"))
    /\ [][dashOffset' # dashOffset =>
            /\ rafPending
            /\ \E id \in DOMAIN edges : edges[id].pulse /\ edges[id].visible # "false"
            /\ rafPending']_vars

\* the phase has advanced, and the loop is stopped with a hidden pulsing edge
C6_Witness ==
    /\ mounted
    /\ dashOffset # 0
    /\ ~rafPending
    /\ edges["e1"].pulse
    /\ edges["e1"].visible = "false"

\* C7: after the unmount no timer, interval, listener or frame is left, and
\* nothing the callbacks write changes again.
C7_NoCallbackAfterUnmount ==
    /\ [](~mounted =>
            /\ ~rafPending
            /\ timers = {}
            /\ ~calcInterval
            /\ ~regInterval
            /\ ~resizeListener)
    /\ [][~mounted => UNCHANGED <<nodesData, paths, dashOffset, dom, calcIn>>]_vars

\* unmounted while the loop was running and before any timer fired; the
\* elements have changed since and the registry has not followed
C7_Witness ==
    /\ ~mounted
    /\ ~calcIn.done
    /\ edges["e1"].pulse /\ edges["e1"].visible # "false"
    /\ dashOffset # 0
    /\ updateNodePositions(refs) # nodesData

endpointsIn(e, reg) == e.from \in DOMAIN reg /\ e.to \in DOMAIN reg

\* a visible edge whose endpoints both have registry entries, layer mounted
recoverable(id) ==
    /\ mounted
    /\ id \in DOMAIN edges
    /\ edges[id].visible # "false"
    /\ endpointsIn(edges[id], nodesData)

\* C8: a pass leaves out exactly the visible edges with a missing endpoint and
\* stores for every other visible edge the route of that edge alone; an edge
\* whose endpoints get and keep entries while it stays visible gets a route.
C8_SkipAndRecover ==
    /\ [](calcIn.done =>
            \A id \in DOMAIN calcIn.edges :
                calcIn.edges[id].visible # "false" =>
                    IF endpointsIn(calcIn.edges[id], calcIn.reg)
                    THEN id \in DOMAIN paths
                         /\ paths[id] = route(calcIn.edges[id], calcIn.reg)
                    ELSE id \notin DOMAIN paths)
    /\ \A id \in EdgeIds : <>[]recoverable(id) => <>[](id \in DOMAIN paths)

\* the last pass left out e2, whose source b had no entry, and routed e1
C8_Witness ==
    /\ calcIn.done
    /\ "b" \notin DOMAIN calcIn.reg
    /\ "e2" \notin DOMAIN paths
    /\ "e1" \in DOMAIN paths
    /\ paths["e1"] = route(calcIn.edges["e1"], calcIn.reg)

\* C9: at every render a path is drawn only for an edge whose endpoints both
\* have an entry in the registry at that moment.
C9_DrawnOnlyIfRegistered ==
    [][(TimerFires \/ IntervalTick \/ Resize \/ AnimationFrame \/ SetEdges)
       => \A id \in DOMAIN dom'.drawn :
             edges'[id].from \in DOMAIN nodesData' /\ edges'[id].to \in DOMAIN nodesData']_vars

\* C10: after a refresh the registry has no entry for a node whose element
\* handle is null at that refresh.
C10_RefreshDropsUnmounted ==
    [][RegistryTick => \A n \in Nodes : ~refs[n].mounted => n \notin DOMAIN nodesData']_vars

\* b had an entry that a pass read; it is unmounted and its entry is gone
C10_Witness ==
    /\ ~refs["b"].mounted
    /\ calcIn.done
    /\ "b" \in DOMAIN calcIn.reg
    /\ "b" \notin DOMAIN nodesData

\* the boxes a bypass has to clear: both endpoints and every intermediate node
involved(id) ==
    {passBox(passEdge(id).from), passBox(passEdge(id).to)}
        \cup {passBox(n) : n \in intermediateNodes(passEdge(id), calcIn.reg)}

\* C11: for an obstructed edge the bypass line is horizontal; for dx > 0 it is
\* 30 px above the topmost top edge among source, target and obstructing
\* nodes, for dx < 0 it is 30 px below the lowest bottom edge among them, so
\* it is at least 30 px outside the vertical extent of every involved box.
C11_BypassLineClearsBoxes ==
    \A id \in Routed :
        intermediateNodes(passEdge(id), calcIn.reg) # {} =>
            LET f == passBox(passEdge(id).from)
                t == passBox(passEdge(id).to)
                dx == (4 * t.x + 2 * t.w) - (4 * f.x + 2 * f.w)
                y == paths[id].path[2].y
            IN  /\ paths[id].path[3].y = y
                /\ dx # 0
                /\ dx > 0 =>
                       /\ \A b \in involved(id) : y <= 4 * (b.y - 30)
                       /\ \E b \in involved(id) : y = 4 * (b.y - 30)
                /\ dx < 0 =>
                       /\ \A b \in involved(id) : y >= 4 * (b.y + b.h + 30)
                       /\ \E b \in involved(id) : y = 4 * (b.y + b.h + 30)

\* e2 runs leftwards below the boxes, and the box that fixes the line is the
\* obstructing node, not an endpoint
C11_Witness ==
    /\ calcIn.done
    /\ "e2" \in DOMAIN paths
    /\ intermediateNodes(passEdge("e2"), calcIn.reg) = {"c"}
    /\ center(passBox("a")).x < center(passBox("b")).x
    /\ paths["e2"].path[2].y = 4 * (passBox("c").y + passBox("c").h + 30)
    /\ passBox("c").y + passBox("c").h > passBox("a").y + passBox("a").h
    /\ passBox("c").y + passBox("c").h > passBox("b").y + passBox("b").h

\* C12: an unobstructed edge whose endpoints have the same centre y and
\* different centre x is one straight horizontal segment at that y, from the
\* facing side of the source to the facing side of the target.
C12_AlignedEdgeIsStraight ==
    \A id \in Routed :
        LET f == passBox(passEdge(id).from)
            t == passBox(passEdge(id).to)
            fcx == 4 * f.x + 2 * f.w
            tcx == 4 * t.x + 2 * t.w
            cy == 4 * f.y + 2 * f.h
            path == paths[id].path
        IN  (/\ intermediateNodes(passEdge(id), calcIn.reg) = {}
             /\ cy = 4 * t.y + 2 * t.h
             /\ fcx # tcx) =>
                /\ \A i \in 1..Len(path) : path[i].y = cy
                /\ bends(path) = 0
                /\ path[1].x = IF tcx > fcx THEN 4 * (f.x + f.w) ELSE 4 * f.x
                /\ path[Len(path)].x = IF tcx > fcx THEN 4 * t.x ELSE 4 * (t.x + t.w)

\* both edges are aligned and unobstructed, one to the right, one to the left
C12_Witness ==
    /\ calcIn.done
    /\ DOMAIN paths = EdgeIds
    /\ intermediateNodes(passEdge("e1"), calcIn.reg) = {}
    /\ intermediateNodes(passEdge("e2"), calcIn.reg) = {}
    /\ center(passBox("a")).y = center(passBox("c")).y
    /\ center(passBox("a")).y = center(passBox("b")).y
    /\ center(passBox("c")).x > center(passBox("a")).x
    /\ center(passBox("a")).x < center(passBox("b")).x

\* C14: an animation frame changes only the dash phase: the stored routes,
\* the drawn paths and label positions and the node registry are as before.
C14_FrameChangesOnlyPhase ==
    [][AnimationFrame =>
        /\ paths' = paths
        /\ nodesData' = nodesData
        /\ DOMAIN dom'.drawn = DOMAIN dom.drawn
        /\ \A id \in DOMAIN dom.drawn :
              /\ dom'.drawn[id].d = dom.drawn[id].d
              /\ dom'.drawn[id].labelPos = dom.drawn[id].labelPos]_vars

\* frames have run while a pulsing edge is drawn and the registry has moved
\* on from the one the routes were computed from
C14_Witness ==
    /\ rafPending
    /\ dashOffset # 0
    /\ "e1" \in DOMAIN dom.drawn
    /\ dom.drawn["e1"].strokeDashoffset = dashOffset
    /\ calcIn.done
    /\ calcIn.reg # nodesData

\* the anchors the dominance rule gives for the boxes f and t
sideAnchors(f, t) ==
    LET fcx == 4 * f.x + 2 * f.w
        fcy == 4 * f.y + 2 * f.h
        tcx == 4 * t.x + 2 * t.w
        tcy == 4 * t.y + 2 * t.h
        dx == tcx - fcx
        dy == tcy - fcy
        adx == IF dx < 0 THEN -dx ELSE dx
        ady == IF dy < 0 THEN -dy ELSE dy
    IN  IF adx > ady
        THEN [start |-> Pt(IF dx > 0 THEN 4 * (f.x + f.w) ELSE 4 * f.x, fcy),
              end |-> Pt(IF dx > 0 THEN 4 * t.x ELSE 4 * (t.x + t.w), tcy)]
        ELSE [start |-> Pt(fcx, IF dy > 0 THEN 4 * (f.y + f.h) ELSE 4 * f.y),
              end |-> Pt(tcx, IF dy > 0 THEN 4 * t.y ELSE 4 * (t.y + t.h))]

\* C15: the anchors follow the centre-to-centre delta: east/west sides facing
\* each other when |dx| > |dy|, south/north sides by the sign of dy in every
\* other case, a tie |dx| = |dy| and coincident centres included; an
\* unobstructed route starts and ends at them.
C15_AnchorsFollowDominance ==
    \A id \in Routed :
        LET f == passBox(passEdge(id).from)
            t == passBox(passEdge(id).to)
        IN  /\ startAnchor(f, t) = sideAnchors(f, t).start
            /\ endAnchor(f, t) = sideAnchors(f, t).end
            /\ intermediateNodes(passEdge(id), calcIn.reg) = {} =>
                  /\ paths[id].path[1] = sideAnchors(f, t).start
                  /\ paths[id].path[4] = sideAnchors(f, t).end

\* e1 joins boxes with |dx| = |dy| # 0 and e2 boxes with the same centre
C15_Witness ==
    /\ calcIn.done
    /\ DOMAIN paths = EdgeIds
    /\ Abs(edgeDx(passBox("a"), passBox("c"))) = Abs(edgeDy(passBox("a"), passBox("c")))
    /\ edgeDx(passBox("a"), passBox("c")) # 0
    /\ center(passBox("a")) = center(passBox("b"))

\* the third nodes the obstruction rule names for a routed edge
obstructing(id) ==
    LET f == passBox(passEdge(id).from)
        t == passBox(passEdge(id).to)
        fcx == 4 * f.x + 2 * f.w
        tcx == 4 * t.x + 2 * t.w
        dy == (4 * t.y + 2 * t.h) - (4 * f.y + 2 * f.h)
        adx == IF tcx < fcx THEN fcx - tcx ELSE tcx - fcx
        ady == IF dy < 0 THEN -dy ELSE dy
    IN  {n \in DOMAIN calcIn.reg \ {passEdge(id).from, passEdge(id).to} :
            /\ adx > ady
            /\ 4 * passBox(n).x + 2 * passBox(n).w > Lo(fcx, tcx)
            /\ 4 * passBox(n).x + 2 * passBox(n).w < Hi(fcx, tcx)}

\* C16: a third registered node obstructs an edge exactly when the edge is
\* horizontal-dominant and the node's centre x is strictly between the
\* endpoint centres, whatever its y; the edge gets the bypass route exactly
\* when it has such a node, so a vertical-dominant edge never gets one.
C16_ObstructionTest ==
    \A id \in Routed :
        /\ intermediateNodes(passEdge(id), calcIn.reg) = obstructing(id)
        /\ paths[id].path =
              IF obstructing(id) # {}
              THEN bypassPath(passEdge(id), calcIn.reg)
              ELSE directPath(passBox(passEdge(id).from), passBox(passEdge(id).to))

\* e1 is horizontal-dominant and b's centre x equals a's: not obstructing;
\* e2 is vertical-dominant with c between its endpoints in y: direct route
C16_Witness ==
    /\ calcIn.done
    /\ DOMAIN paths = EdgeIds
    /\ horizontalDominant(passBox("a"), passBox("c"))
    /\ center(passBox("b")).x = center(passBox("a")).x
    /\ paths["e1"].path = directPath(passBox("a"), passBox("c"))
    /\ ~horizontalDominant(passBox("b"), passBox("a"))
    /\ center(passBox("c")).y > center(passBox("a")).y
    /\ center(passBox("c")).y < center(passBox("b")).y
    /\ paths["e2"].path = directPath(passBox("b"), passBox("a"))

\* number of segments of a path, consecutive equal points counted once
segments(path) == Len(distinctPoints(path)) - 1

\* the shape of a bypass route: out of the source vertically at its centre x
\* from its top (dx > 0) or bottom side, along the bypass line, into the
\* target vertically at its centre x
bypassShape(id) ==
    LET f == passBox(passEdge(id).from)
        t == passBox(passEdge(id).to)
        fcx == 4 * f.x + 2 * f.w
        tcx == 4 * t.x + 2 * t.w
        path == paths[id].path
    IN  /\ orthogonal(path)
        /\ path[1] = Pt(fcx, IF tcx > fcx THEN 4 * f.y ELSE 4 * (f.y + f.h))
        /\ path[2].x = fcx
        /\ path[2].y = path[3].y
        /\ path[3].x = tcx
        /\ path[Len(path)] = Pt(tcx, IF tcx > fcx THEN 4 * t.y ELSE 4 * (t.y + t.h))

\* C17 as stated: an obstructed edge gets an orthogonal polyline of four
\* segments: vertically out of the source, along the bypass line, vertically
\* into the target.
C17_BypassFourSegments ==
    \A id \in Routed :
        intermediateNodes(passEdge(id), calcIn.reg) # {} =>
            bypassShape(id) /\ segments(paths[id].path) = 4

\* C17 amended: an obstructed edge gets an orthogonal polyline of four points
\* and three segments: vertically out of the source, along the bypass line,
\* vertically into the target.
C17_BypassThreeSegments ==
    \A id \in Routed :
        intermediateNodes(passEdge(id), calcIn.reg) # {} =>
            bypassShape(id) /\ Len(paths[id].path) = 4 /\ segments(paths[id].path) = 3

\* e1 runs rightwards around b
C17_Witness ==
    /\ calcIn.done
    /\ "e1" \in DOMAIN paths
    /\ intermediateNodes(passEdge("e1"), calcIn.reg) = {"b"}
    /\ segments(paths["e1"].path) = 3
    /\ paths["e1"].path[2].y < paths["e1"].path[1].y

\* C18: the label of a bypass route is 8 px above the bypass line, midway
\* between the x of the two vertical legs of the path, for all box widths.
C18_BypassLabelAtMidpoint ==
    \A id \in Routed :
        intermediateNodes(passEdge(id), calcIn.reg) # {} =>
            /\ paths[id].labelPos.y = paths[id].path[2].y - 4 * 8
            /\ 2 * paths[id].labelPos.x = paths[id].path[2].x + paths[id].path[3].x

\* the inline value is no negative length
nonNegative(s) == s.k # "px" \/ s.n >= 0

\* C19: a refresh stores an entry only for a mounted element whose left and
\* top are not negative, and a pass stores no route for an edge with an
\* endpoint whose element is at a negative left or top.
C19_NegativePositionNotRegistered ==
    /\ [][RegistryTick =>
            \A n \in DOMAIN nodesData' :
                /\ refs[n].mounted
                /\ nonNegative(refs[n].left)
                /\ nonNegative(refs[n].top)]_vars
    /\ [][((TimerFires \/ IntervalTick) /\ nodesData = updateNodePositions(refs)) =>
            \A id \in DOMAIN paths' :
                \A n \in {edges[id].from, edges[id].to} :
                    nonNegative(refs[n].left) /\ nonNegative(refs[n].top)]_vars

C13_NextStepEvent ==
    [][SlideNextStep =>
        /\ currentSlide' = currentSlide
        /\ slide.flowStep = "idle" =>
              slide'.flowStep = FLOW_STEPS(currentSlide)[2]
        /\ (slide.flowStep # "idle" /\ canGoNext(currentSlide, slide)) =>
              indexOf(FLOW_STEPS(currentSlide), slide'.flowStep)
                  = indexOf(FLOW_STEPS(currentSlide), slide.flowStep) + 1
        /\ (slide.flowStep # "idle" /\ ~canGoNext(currentSlide, slide)) =>
              UNCHANGED <<slide, validationTimer, advanceTimer>>]_vars

\* on Slide 4 the event was the last input at idp_validates with the
\* validation done and the advance timer pending: the event entered no step
\* (Next enters this step with isValidated false) and left the state alone
C13_Witness ==
    /\ currentSlide = 5
    /\ lastEvent = "slideNextStep"
    /\ slide.flowStep = "idp_validates"
    /\ slide.isValidated
    /\ advanceTimer = "idp_returns_id_token"
    /\ ~validationTimer

\* C21: a registry changed by a refresh tick is read by a recomputation
\* before the next refresh tick: once a pass has run, every refresh tick
\* finds the registry that the last pass read.
C21_RefreshTriggersRecomputation ==
    [][(RegistryTick /\ calcIn.done) => calcIn.reg = nodesData]_vars

\* a recomputation is pending: a staggered timer, the interval or the listener
recomputationPending == timers # {} \/ calcInterval \/ resizeListener

\* a step in which calculatePaths ran: a staggered timer fired, or the record
\* of the inputs read was written (an interval or resize pass over inputs
\* already read changes nothing)
recomputed ==
    \/ mounted' /\ timers' # timers /\ timers' \subseteq timers
    \/ calcIn' # calcIn

\* C22: every recomputation (timer, interval, resize) reads the registry as
\* the latest refresh wrote it and the edge declarations of the latest
\* render and stores exactly their routes; every pending recomputation was
\* scheduled under the declarations of the latest render.
C22_RecomputationReadsCurrentInputs ==
    /\ [](recomputationPending => calcEdges = edges)
    /\ [][recomputed =>
            /\ calcIn' = [done |-> TRUE, edges |-> edges, reg |-> nodesData]
            /\ paths' = newPaths(edges, nodesData)]_vars

\* the declarations changed after a recomputation: the stored routes belong
\* to superseded declarations and all four retries are pending again for the
\* new ones
C22_Witness ==
    /\ mounted
    /\ calcIn.done
    /\ calcIn.edges # edges
    /\ calcEdges = edges
    /\ timers = TimerDelays
    /\ rafPending

\* the values the dash phase takes
DashPhases == {n \in 0..(dashPeriod - 1) : n % dashStep = 0}

\* C23: the dash phase is one of 0, 2, ..., 18; only an animation frame of
\* the running loop changes it, to (phase + 2) mod 20; a render that stops
\* or restarts the loop leaves it as it is.
C23_PhaseOnlyByFrame ==
    /\ [](dashOffset \in DashPhases)
    /\ [][dashOffset' # dashOffset =>
            /\ rafPending
            /\ AnimationFrame
            /\ dashOffset' = (dashOffset + 2) % 20]_vars
    /\ [][rafPending' # rafPending => dashOffset' = dashOffset]_vars

\* the loop is stopped with the phase at a value other than 0
C23_Witness ==
    /\ mounted
    /\ ~rafPending
    /\ ~hasPulsing(edges)
    /\ dashOffset = 18

\* the chips the last render drew
chipsDrawn == {id \in DOMAIN dom.drawn : dom.drawn[id].chip # <<>>}

\* C24: every drawn edge with a label of len > 0 characters has one chip,
\* 18 high, min(160, 10 * len) wide, its left edge min(80, 5 * len) left of
\* the label anchor; so the anchor is the chip's horizontal centre and the
\* chip is at most 160 wide.  An edge without label text has no chip.
C24_ChipCentredOnAnchor ==
    \A id \in DOMAIN dom.drawn :
        LET len == labelLength(edges[id])
            entry == dom.drawn[id]
        IN  IF len = 0 THEN entry.chip = <<>>
            ELSE /\ Len(entry.chip) = 1
                 /\ entry.chip[1].height = 18 * Scale
                 /\ entry.chip[1].width = Min(160, 10 * len) * Scale
                 /\ entry.chip[1].x = entry.labelPos.x - Min(80, 5 * len) * Scale
                 /\ 2 * entry.chip[1].x + entry.chip[1].width = 2 * entry.labelPos.x
                 /\ entry.chip[1].width <= 160 * Scale

\* a label longer than 16 characters on the bypass route and a short one on
\* the direct route, both drawn
C24_Witness ==
    /\ chipsDrawn = {"e1", "e2"}
    /\ labelLength(edges["e1"]) > 16
    /\ dom.drawn["e1"].chip[1].width = 160 * Scale
    /\ labelLength(edges["e2"]) = 3
    /\ dom.drawn["e2"].chip[1].width = 30 * Scale

\* the page shows slide k at the URL of slide k and nothing is queued
settledOn(k) == rendered /\ currentSlide = k /\ slug = SLIDES[k]

\* C25: after the URL changed to the slug of slide k the page settles on
\* slide k at that URL, and after a key or button set slide k the page
\* settles on slide k at the URL of slide k.
C25_SyncSettles ==
    \A k \in 1..NumSlides :
        /\ (lastEvent = "url" /\ slug = SLIDES[k]) ~> settledOn(k)
        /\ (lastEvent \in {"digit", "number", "previousSlide", "nextSlide"} /\ currentSlide = k)
              ~> settledOn(k)

\* the part of C25 about keys and buttons
KeySyncSettles ==
    \A k \in 1..NumSlides :
        (lastEvent \in {"digit", "number", "previousSlide", "nextSlide"} /\ currentSlide = k)
            ~> settledOn(k)

\* the automatic-validation steps where Next is disabled: slide number,
\* step, the token step that follows
AutoValidationSteps ==
    { <<3, "idp_validates", "id_token_received">>,
      <<5, "idp_validates", "idp_returns_id_token">>,
      <<5, "idp_validates_identity", "idp_returns_id_token_to_zoom">>,
      <<6, "agent_sso", "idp_returns_id_token">> }

atStep(k, step) == currentSlide = k /\ slide.flowStep = step

\* C26: a slide on an automatic-validation step with Next disabled does not
\* stay there: unless the user leaves the step first, the timers mark the
\* validation done and move the slide to the token step that follows,
\* however the step was entered.
C26_AutoValidationAdvances ==
    \A a \in AutoValidationSteps :
        (atStep(a[1], a[2]) /\ ~canGoNext(a[1], slide))
          ~> \/ atStep(a[1], a[3]) /\ slide.isValidated /\ lastEvent = "advance"
             \/ ~atStep(a[1], a[2]) /\ lastEvent # "advance"

\* the part of C26 about steps entered in the forward direction, where the
\* validation is not yet marked as done
ForwardValidationAdvances ==
    \A a \in AutoValidationSteps :
        (atStep(a[1], a[2]) /\ ~slide.isValidated) ~> ~atStep(a[1], a[2])

\* the entries the HTTP request panel of the slide shown lists
listed == SeqRange(httpEntries(currentSlide, slide))

\* C27: when the HTTP request panel lists at least one entry, the selected
\* entry is one of the listed entries, also after the list has shrunk.
C27_SelectedEntryListed ==
    listed # {} => slide.selectedEntryId \in listed

\* the part of C27 about a step that has an entry: a step change to it
\* selects its entry
ActiveEntrySelected ==
    [][(slide'.flowStep # slide.flowStep /\ currentSlide' = currentSlide
          /\ slide'.flowStep \in SeqRange(httpEntries(currentSlide, slide')))
        => slide'.selectedEntryId = slide'.flowStep]_vars

\* C28: the insights panel is open only at a step that has insights; a step
\* change to a step without insights closes it, and a closed panel is opened
\* by the Insights button only.
C28_InsightsOpenOnlyWithInsights ==
    /\ [](slide.insightsOpen => hasInsights(currentSlide, slide))
    /\ [][(~slide.insightsOpen /\ slide'.insightsOpen) =>
            (ToggleInsights /\ hasInsights(currentSlide, slide'))]_vars

\* the panel of Slide 4 was opened on the last step, the only one with
\* insights
C28_Witness ==
    /\ currentSlide = 5
    /\ slide.flowStep = "zoom_responds"
    /\ slide.insightsOpen
    /\ lastEvent = "insights"

\* C29: in Slides 2, 4 and 5 a slide at idle leaves idle only when the user
\* starts the flow (Start button or slideNextStep event); no timer moves it.
C29_IdleUntilStarted ==
    [][(currentSlide \in {3, 5, 6} /\ currentSlide' = currentSlide
          /\ slide.flowStep = "idle" /\ slide'.flowStep # "idle")
        => lastEvent' \in {"start", "slideNextStep"}]_vars

\* the steps that wait for a dialog: slide number, step
DialogSteps ==
    { <<1, "user_authenticates">>, <<2, "login_shown">>,
      <<3, "consent_shown">>, <<5, "consent_shown">> }

\* position of the slide's step in its step list
stepIndex(k, s) == indexOf(FLOW_STEPS(k), s.flowStep)

\* C30: a slide on a step that waits for a dialog moves to a later step only
\* by the confirm action of the dialog (Login, Allow); the Next button, the
\* slideNextStep event and the timers do not move it forward, and no step
\* from the dialog step or a step before it to a step after it is taken
\* without the confirm action.
C30_DialogStepLeftByConfirm ==
    [][\A d \in DialogSteps :
          /\ (atStep(d[1], d[2]) /\ currentSlide' = currentSlide
                 /\ stepIndex(currentSlide, slide') > stepIndex(currentSlide, slide))
              => lastEvent' \in {"login", "allow"}
          /\ (currentSlide = d[1] /\ currentSlide' = currentSlide
                 /\ stepIndex(currentSlide, slide) <= indexOf(FLOW_STEPS(d[1]), d[2])
                 /\ stepIndex(currentSlide, slide') > indexOf(FLOW_STEPS(d[1]), d[2]))
              => lastEvent' \in {"login", "allow"}]_vars

\* Slide 2 has just left consent_shown by Allow: the dialog is closed and the
\* access token step is shown
C30_Witness ==
    /\ currentSlide = 3
    /\ slide.flowStep = "access_token_issued"
    /\ ~slide.showConsentDialog
    /\ slide.zoomAccessToken
    /\ lastEvent = "allow"

\* C31: in Slides 0 and 1 the login dialog flag is set only at the login
\* step of the slide.
C31_LoginDialogOnlyAtLoginStep ==
    /\ (currentSlide = 1 /\ slide.showLoginDialog) => slide.flowStep = "user_authenticates"
    /\ (currentSlide = 2 /\ slide.showLoginDialog) => slide.flowStep = "login_shown"

\* the login dialog of Slide 0 is open again at the login step, reached by
\* Previous from the step after it
C31_Witness ==
    /\ currentSlide = 1
    /\ slide.flowStep = "user_authenticates"
    /\ slide.showLoginDialog
    /\ lastEvent = "previous"

\* C32: in Slides 2 and 4 the consent dialog flag is set only at
\* consent_shown; in particular it is not set after Deny.
C32_ConsentDialogOnlyAtConsentStep ==
    (currentSlide \in {3, 5} /\ slide.showConsentDialog) => slide.flowStep = "consent_shown"

\* C33: in Slide 5 the held tokens form a progression consistent with the
\* step: an access token is held only at agent_calls_api or zoom_responds,
\* an access token only together with an ID-JAG, and an ID-JAG only together
\* with an ID token.
C33_TokenProgression ==
    currentSlide = 6 =>
        /\ slide.accessToken => slide.flowStep \in {"agent_calls_api", "zoom_responds"}
        /\ slide.accessToken => slide.idJag
        /\ slide.idJag => slide.idToken

\* Slide 5 stepped back from agent_calls_api: the access token is dropped, the
\* ID-JAG and the ID token are still held
C33_Witness ==
    /\ currentSlide = 6
    /\ slide.flowStep = "zoom_issues_access_token"
    /\ lastEvent = "previous"
    /\ ~slide.accessToken
    /\ slide.idJag
    /\ slide.idToken

\* C34: in Slide 2, at idle nothing of a previous run is held: no ID token,
\* no Zoom access token, no meeting response.
C34_IdleHoldsNothing ==
    (currentSlide = 3 /\ slide.flowStep = "idle") =>
        /\ ~slide.idToken
        /\ ~slide.zoomAccessToken
        /\ ~slide.meetingResponse

\* C35: currentSlide is always between 1 and the number of ready slides, so
\* the lookup of the current slide's component and title is in range.
C35_CurrentSlideInRange ==
    /\ currentSlide >= 1
    /\ currentSlide <= NumSlides
    /\ currentSlide \in DOMAIN SLIDES

\* the URL was changed to a slug no slide has while the last slide is shown
C35_Witness ==
    /\ lastEvent = "url"
    /\ slug = NoSuchSlug
    /\ currentSlide = NumSlides

\* C36: the steps of a slide form one linear sequence: at a step other than
\* idle where Next is enabled, Next moves flowStep to the immediate successor
\* in the slide's step order, and Previous right after it moves flowStep back
\* to the step Next started from.
C36_NextThenPreviousReturns ==
    (slide.flowStep # "idle" /\ canGoNext(currentSlide, slide)) =>
        /\ stepIndex(currentSlide, onNext(currentSlide, slide))
              = stepIndex(currentSlide, slide) + 1
        /\ canGoPrevious(currentSlide, onNext(currentSlide, slide))
        /\ onPrevious(currentSlide, onNext(currentSlide, slide)).flowStep = slide.flowStep

\* Slide 2 is back at api_call by Previous from api_response, the step Next
\* had led to: Next is enabled again and the meeting response is dropped
C36_Witness ==
    /\ currentSlide = 3
    /\ slide.flowStep = "api_call"
    /\ lastEvent = "previous"
    /\ canGoNext(currentSlide, slide)
    /\ ~slide.meetingResponse

====
